---- MODULE Spec2Model ----
(***************************************************************************)
(* hand-measure.  The measurement core: updateMeasurementDisplays and      *)
(* renderMeasurementHistory of app/js/measurement.js (the version with the *)
(* measurement history), as a state machine over the module-level state    *)
(* (measurementHistory and the three display elements); the legacy version *)
(* of the same file, which shows raw pixel values; and the camera controls *)
(* and prediction loop of app/js/handDetection.js that feed it.            *)
(*                                                                         *)
(* JavaScript numbers are modelled as exact rationals <<n, d>> (d > 0, in  *)
(* lowest terms); null and undefined are the empty tuple.  Math.sqrt is    *)
(* exact where its value is stored: the frames the model feeds in have     *)
(* rational pixel distances.                                               *)
(***************************************************************************)
EXTENDS Integers, Sequences, FiniteSets, TLC

VARIABLES
    measurementHistory,          \* let measurementHistory = []
    currentPalmWidthDisplay,     \* innerText of the palm-width <p>
    currentPalmLengthDisplay,    \* innerText of the palm-length <p>
    measurementHistoryContainer, \* what renderMeasurementHistory last rendered
    now,                         \* the wall clock read by new Date(), in seconds
    calls,                       \* number of updateMeasurementDisplays calls so far
    bothLog,                     \* the frames so far that held a usable hand and a detection
    boxSeen,                     \* whether any frame so far held a detection
    handOnlyCalls,               \* number of calls so far with a usable hand and no detection
    classifyIn,                  \* classifier harness: the millimeter value classified
    classifyOut,                 \* classifier harness: the four call sites' results
    dist5to17Display,            \* legacy measurement.js: innerText of the 5-17 distance <p>
    dist0to9Display,             \* legacy measurement.js: innerText of the 0-9 distance <p>
    cardLongSideDisplay,         \* legacy measurement.js: innerText of the longer-side <p>
    cardShortSideDisplay,        \* legacy measurement.js: innerText of the shorter-side <p>
    legacyFrame,                 \* the arguments of the last legacy updateMeasurementDisplays call
    threw,                       \* whether the last updateMeasurementDisplays call raised a TypeError
    webcamRunning,               \* let webcamRunning = false
    currentStream,               \* let currentStream: the MediaStream last obtained
    liveStreams,                 \* the MediaStreams obtained whose tracks are not stopped
    selectedDeviceId,            \* let selectedDeviceId ("" while no camera is selected)
    currentCameraIndex,          \* let currentCameraIndex = 0 (the version with switchCamera)
    enableCamButtonText,         \* enableCamButton.innerText
    displayShown,                \* video.style.display and canvasElement.style.display are "block"
    changeListener,              \* the "change" listener of cameraSelect is registered
    clickListener,               \* the "click" listener of enableCamButton is registered
    loadeddataListener,          \* a once-listener predictWebcam waits for "loadeddata"
    loadeddataDue,               \* the video has a new srcObject whose first frame is not loaded yet
    streamsRequested,            \* number of getUserMedia calls so far
    videoTime,                   \* video.currentTime
    lastVideoTime,               \* let lastVideoTime = -1
    frameCount,                  \* let frameCount = 0
    latestHandResults,           \* let handResults = undefined (handDetection.js)
    latestObjectResults,         \* let objectResults = undefined (handDetection.js)
    lastHandDetectedState,       \* let lastHandDetectedState = false
    lastCellPhoneDetectedState,  \* let lastCellPhoneDetectedState = false
    rafPending,                  \* number of requestAnimationFrame(predictWebcam) callbacks pending
    stack,                       \* the predictWebcam activation on the call stack, or null
    suspended,                   \* the activations waiting at an await, oldest first
    capturedBeforeDisable,       \* length of the log at the last Disable click, -1 before any
    consoleLog,                  \* the lines the latest detection pass wrote to the console
    lastHandMessage,             \* the last hand line logged since the camera went on, "" if none
    lastCellPhoneMessage,        \* the last cell phone line logged since the camera went on
    userDisabled,                \* the last click on the camera button was a Disable click
    availableVideoDevices,       \* let availableVideoDevices = [] (part_003), by deviceId
    effectiveSwitches,           \* the switchCamera calls that went past the guard
    processingCard,              \* let processingCard = false (cardDetection.js)
    cvLoaded,                    \* cv and cv.Mat are defined
    videoReady,                  \* video.videoWidth and video.videoHeight are non-zero
    cardTicks,                   \* the ticks of cardDetectionInterval so far
    cardRuns,                    \* the detectCard calls that set processingCard
    cardConsole,                 \* the last console line of detectCard
    liveMats,                    \* the cv objects created and not deleted
    overlayShown                 \* the card-overlay canvas exists

vars == <<measurementHistory, currentPalmWidthDisplay, currentPalmLengthDisplay,
          measurementHistoryContainer, now, calls, bothLog, boxSeen, handOnlyCalls,
          classifyIn, classifyOut,
          dist5to17Display, dist0to9Display, cardLongSideDisplay, cardShortSideDisplay,
          legacyFrame, threw,
          webcamRunning, currentStream, liveStreams, selectedDeviceId, currentCameraIndex,
          enableCamButtonText, displayShown, changeListener, clickListener,
          loadeddataListener, loadeddataDue, streamsRequested, videoTime, lastVideoTime,
          frameCount, latestHandResults, latestObjectResults, lastHandDetectedState,
          lastCellPhoneDetectedState, rafPending, stack, suspended, capturedBeforeDisable,
          consoleLog, lastHandMessage, lastCellPhoneMessage, userDisabled,
          availableVideoDevices, effectiveSwitches,
          processingCard, cvLoaded, videoReady, cardTicks, cardRuns, cardConsole, liveMats,
          overlayShown>>

measureVars == <<measurementHistory, currentPalmWidthDisplay, currentPalmLengthDisplay,
                 measurementHistoryContainer, now, calls, bothLog, boxSeen, handOnlyCalls,
                 threw>>

classifyVars == <<classifyIn, classifyOut>>

\* the console output of the prediction loop
logVars == <<consoleLog, lastHandMessage, lastCellPhoneMessage>>

\* the state of cardDetection.js
cardVars == <<processingCard, cvLoaded, videoReady, cardTicks, cardRuns, cardConsole, liveMats,
              overlayShown>>

\* the camera list of part_003
deviceVars == <<availableVideoDevices, effectiveSwitches>>

\* the state of handDetection.js
cameraVars == <<webcamRunning, currentStream, liveStreams, selectedDeviceId, currentCameraIndex,
                enableCamButtonText, displayShown, changeListener, clickListener,
                loadeddataListener, loadeddataDue, streamsRequested, videoTime, lastVideoTime,
                frameCount, latestHandResults, latestObjectResults, lastHandDetectedState,
                lastCellPhoneDetectedState, rafPending, stack, suspended,
                capturedBeforeDisable, logVars, userDisabled, deviceVars>>

legacyVars == <<dist5to17Display, dist0to9Display, cardLongSideDisplay, cardShortSideDisplay,
                legacyFrame>>

-----------------------------------------------------------------------------
(* Bounds of the model.                                                     *)

MaxCalls == 3
MaxClock == 1
MaxHalfMm == 240

\* the getUserMedia calls made in one session
MaxStreams == 2

\* the ticks of the card detection timer
MaxTicks == 3

\* the contours findContours returns for one frame
MaxContours == 1

\* the handlers waiting for enumerateDevices at one time
MaxPending == 2

\* the values video.currentTime takes on one stream: 0..MaxVideoTime
MaxVideoTime == 1

\* the calls made on the edge frames
MaxEdgeCalls == 2

\* the largest pixel distance whose root SqrtToFixed2 looks for
MaxRoot == 230

-----------------------------------------------------------------------------
(* null / undefined, and exact rational arithmetic for JavaScript numbers.  *)

Null == <<>>

RECURSIVE GCD(_, _)
GCD(a, b) == IF b = 0 THEN a ELSE GCD(b, a % b)

Abs(a) == IF a < 0 THEN -a ELSE a

\* n/d in lowest terms with a positive denominator (d # 0)
Rat(n, d) ==
    LET g == GCD(Abs(n), Abs(d))
        s == IF d < 0 THEN -1 ELSE 1
    IN  <<(s * n) \div g, (s * d) \div g>>

RInt(n) == <<n, 1>>
Zero == RInt(0)

LCM(a, b) == (a \div GCD(a, b)) * b

RAdd(p, q) ==
    LET l == LCM(p[2], q[2])
    IN  Rat(p[1] * (l \div p[2]) + q[1] * (l \div q[2]), l)

RNeg(p) == <<-p[1], p[2]>>

RSub(p, q) == RAdd(p, RNeg(q))

\* cross-cancelled, so that no intermediate product is larger than the result
RMul(p, q) ==
    LET g1 == GCD(Abs(p[1]), q[2])
        g2 == GCD(Abs(q[1]), p[2])
    IN  Rat((p[1] \div g1) * (q[1] \div g2), (p[2] \div g2) * (q[2] \div g1))

\* q # 0
RDiv(p, q) == RMul(p, Rat(q[2], q[1]))

RLt(p, q) ==
    LET l == LCM(p[2], q[2])
    IN  p[1] * (l \div p[2]) < q[1] * (l \div q[2])

RGe(p, q) == ~RLt(p, q)

RGt(p, q) == RLt(q, p)

RMax(p, q) == IF RLt(p, q) THEN q ELSE p

RMin(p, q) == IF RLt(q, p) THEN q ELSE p

\* the natural number whose square is n (n a perfect square)
ISqrt(n) == CHOOSE k \in 0..n : k * k = n

\* Math.sqrt on a rational with a rational root
RSqrt(p) == <<ISqrt(p[1]), ISqrt(p[2])>>

\* Math.pow(p, 2)
RSquare(p) == RMul(p, p)

\* Number.prototype.toFixed(2): the decimal string "i.cc" as <<i, cc>>, "-i.cc" as
\* <<"-", i, cc>>; the hundredth nearest to the magnitude, the larger one on a tie
ToFixed2(p) ==
    LET a == Abs(p[1])
        i == a \div p[2]
        r == a % p[2]
        h == i * 100 + ((200 * r + p[2]) \div (2 * p[2]))
    IN  IF p[1] < 0 THEN <<"-", h \div 100, h % 100>> ELSE <<h \div 100, h % 100>>

\* Math.sqrt(p).toFixed(2) of p >= 0, the root rational or not: the hundredth
\* nearest to the root, the larger one on a tie
SqrtToFixed2(p) ==
    LET k == CHOOSE k \in 0..MaxRoot : k * k * p[2] <= p[1] /\ p[1] < (k + 1) * (k + 1) * p[2]
        h == CHOOSE h \in (100 * k)..(100 * k + 100) :
                 /\ h = 0 \/ (2 * h - 1) * (2 * h - 1) * p[2] <= 40000 * p[1]
                 /\ 40000 * p[1] < (2 * h + 1) * (2 * h + 1) * p[2]
    IN  <<h \div 100, h % 100>>

\* Date.prototype.toLocaleTimeString: the time of day only, as <<h, m, s>>
ToLocaleTimeString(t) == <<(t \div 3600) % 24, (t \div 60) % 60, t % 60>>

-----------------------------------------------------------------------------
(* Program constants.                                                       *)

\* mutant: the card's short side (ACTUAL_CARD_SHORT_SIDE_MM) calibrates the long side
ActualCardShortSideAsLong == Rat(5398, 100)

ACTUAL_CARD_LONG_SIDE_MM == Rat(8560, 100)
PALM_WIDTH_COMPENSATION_FACTOR == Rat(130, 100)
PALM_LENGTH_COMPENSATION_FACTOR == Rat(100, 100)

\* mutant: the sides of the box are stored as detected
NoDimensionCompensation == Rat(100, 100)

CARD_DIMENSION_COMPENSATION_FACTOR == Rat(90, 100)

\* mutant: the guard admits a hand whose last landmark is 16
MinLandmarksOneShort == 18 - 1

\* landmarks.length >= 18
MinLandmarks == 18

\* mutant: the models run on every new video frame
frameSkipIntervalEveryFrame == 2 - 1

\* const frameSkipInterval = 2
frameSkipInterval == 2

-----------------------------------------------------------------------------
(* The frames fed to updateMeasurementDisplays: MediaPipe's result objects. *)

Point(xTenths, yTenths) == [x |-> Rat(xTenths, 10), y |-> Rat(yTenths, 10)]

\* a hand of n landmarks; landmarks[0], [5], [9], [17] as given, the others at rest
Hand(n, p0, p5, p9, p17, rest) ==
    [i \in 1..n |-> CASE i = 1  -> p0
                      [] i = 6  -> p5
                      [] i = 10 -> p9
                      [] i = 18 -> p17
                      [] OTHER  -> rest]

\* landmarks 5-17 are 128 px and 0-9 are 96 px apart on a 640x480 canvas
OpenHand == Hand(21, Point(5, 5), Point(4, 4), Point(5, 3), Point(6, 4), Point(5, 5))

\* landmarks 5-17 are 240 px and 0-9 are 336 px apart on a 640x480 canvas
WideHand == Hand(21, Point(5, 10), Point(2, 2), Point(5, 3), Point(5, 5), Point(5, 5))

\* landmarks 0..16 only: landmark 17 is missing
ShortHand == Hand(17, Point(5, 5), Point(4, 4), Point(5, 3), Point(6, 4), Point(5, 5))

HandInputs ==
    { [landmarks |-> <<>>],
      [landmarks |-> <<ShortHand>>],
      [landmarks |-> <<OpenHand>>],
      [landmarks |-> <<WideHand>>] }

\* a detection whose bounding box has its origin at (x, y)
DetectionAt(x, y, w, h) ==
    [boundingBox |-> [originX |-> RInt(x), originY |-> RInt(y),
                      width |-> RInt(w), height |-> RInt(h)]]

Detection(w, h) ==
    [boundingBox |-> [originX |-> RInt(10), originY |-> RInt(20),
                      width |-> RInt(w), height |-> RInt(h)]]

ObjectInputs ==
    { [detections |-> <<>>],
      [detections |-> <<Detection(0, 0)>>],
      [detections |-> <<Detection(300, 189)>>],
      [detections |-> <<Detection(220, 350)>>] }

\* canvasElement.width, canvasElement.height
CanvasSizes == { <<640, 480>> }

Frames ==
    { [handResults |-> h, objectResults |-> o, canvasWidth |-> c[1], canvasHeight |-> c[2]] :
        h \in HandInputs, o \in ObjectInputs, c \in CanvasSizes }

-----------------------------------------------------------------------------
(* updateMeasurementDisplays, piece by piece.                               *)

\* landmarks[i], JavaScript's 0-based index
Landmark(landmarks, i) == landmarks[i + 1]

\* handResults && handResults.landmarks && handResults.landmarks.length > 0
HandCurrentlyDetected(handResults) ==
    /\ handResults # Null
    /\ handResults.landmarks # Null
    /\ Len(handResults.landmarks) > 0

\* Math.sqrt(Math.pow(bX - aX, 2) + Math.pow(bY - aY, 2)) of the two landmarks in pixels
PixelDistance(a, b, canvasWidth, canvasHeight) ==
    LET aX_px == RMul(a.x, RInt(canvasWidth))
        aY_px == RMul(a.y, RInt(canvasHeight))
        bX_px == RMul(b.x, RInt(canvasWidth))
        bY_px == RMul(b.y, RInt(canvasHeight))
    IN  RSqrt(RAdd(RSquare(RSub(bX_px, aX_px)), RSquare(RSub(bY_px, aY_px))))

\* currentHandMeasurements after the hand block: null, or the two pixel distances
HandMeasurements(handResults, canvasWidth, canvasHeight) ==
    IF HandCurrentlyDetected(handResults)
    THEN LET landmarks == handResults.landmarks[1]
         IN  IF landmarks # Null /\ Len(landmarks) >= MinLandmarks
             THEN [dist5to17 |-> PixelDistance(Landmark(landmarks, 5), Landmark(landmarks, 17),
                                               canvasWidth, canvasHeight),
                   dist0to9  |-> PixelDistance(Landmark(landmarks, 0), Landmark(landmarks, 9),
                                               canvasWidth, canvasHeight)]
             ELSE Null
    ELSE Null

\* the hand block reads .x of an undefined landmark: the length guard lets through
\* a hand that lacks one of the landmarks 5, 17, 0, 9
HandBlockThrows(handResults) ==
    /\ HandCurrentlyDetected(handResults)
    /\ LET landmarks == handResults.landmarks[1]
       IN  /\ landmarks # Null
           /\ Len(landmarks) >= MinLandmarks
           /\ \E i \in {5, 17, 0, 9} : i >= Len(landmarks)

\* objectResults && objectResults.detections && objectResults.detections.length > 0
CellPhoneCurrentlyDetected(objectResults) ==
    /\ objectResults # Null
    /\ objectResults.detections # Null
    /\ Len(objectResults.detections) > 0

\* mutant: the last detection of the frame is measured
CardMeasurementsOfLastDetection(objectResults) ==
    IF CellPhoneCurrentlyDetected(objectResults)
    THEN LET bbox      == objectResults.detections[Len(objectResults.detections)].boundingBox
             width_px  == RMul(bbox.width, CARD_DIMENSION_COMPENSATION_FACTOR)
             height_px == RMul(bbox.height, CARD_DIMENSION_COMPENSATION_FACTOR)
         IN  [cardLongSide  |-> RMax(width_px, height_px),
              cardShortSide |-> RMin(width_px, height_px)]
    ELSE Null

\* mutant: the sides of the box are taken by magnitude
CardMeasurementsByMagnitude(objectResults) ==
    IF CellPhoneCurrentlyDetected(objectResults)
    THEN LET bbox      == objectResults.detections[1].boundingBox
             width_px  == RMul(<<Abs(bbox.width[1]), bbox.width[2]>>,
                               CARD_DIMENSION_COMPENSATION_FACTOR)
             height_px == RMul(<<Abs(bbox.height[1]), bbox.height[2]>>,
                               CARD_DIMENSION_COMPENSATION_FACTOR)
         IN  [cardLongSide  |-> RMax(width_px, height_px),
              cardShortSide |-> RMin(width_px, height_px)]
    ELSE Null

\* currentCardMeasurements after the card block: null, or the compensated sides
CardMeasurements(objectResults) ==
    IF CellPhoneCurrentlyDetected(objectResults)
    THEN LET bbox      == objectResults.detections[1].boundingBox
             width_px  == RMul(bbox.width, CARD_DIMENSION_COMPENSATION_FACTOR)
             height_px == RMul(bbox.height, CARD_DIMENSION_COMPENSATION_FACTOR)
         IN  [cardLongSide  |-> RMax(width_px, height_px),
              cardShortSide |-> RMin(width_px, height_px)]
    ELSE Null

\* mutant: the ratio is taken from the shorter side of the box
PixelPerMmOfShortSide(currentCardMeasurements) ==
    IF currentCardMeasurements # Null /\ RGt(currentCardMeasurements.cardLongSide, Zero)
    THEN RDiv(currentCardMeasurements.cardShortSide, ACTUAL_CARD_LONG_SIDE_MM)
    ELSE Null

\* pixelPerMm after the card block: null unless a detection's longer side is > 0
PixelPerMm(currentCardMeasurements) ==
    IF currentCardMeasurements # Null /\ RGt(currentCardMeasurements.cardLongSide, Zero)
    THEN RDiv(currentCardMeasurements.cardLongSide, ACTUAL_CARD_LONG_SIDE_MM)
    ELSE Null

\* mutant: the boundary values fall in the lower bucket
EstimatedPalmWidthLowerBucket(dist5to17_mm) ==
    IF ~RGt(dist5to17_mm, RInt(80)) THEN "Small"
    ELSE IF ~RGt(dist5to17_mm, RInt(90)) THEN "Medium"
    ELSE "Large"

\* the per-frame palm-width classification
EstimatedPalmWidth(dist5to17_mm) ==
    IF RLt(dist5to17_mm, RInt(80)) THEN "Small"
    ELSE IF RGe(dist5to17_mm, RInt(80)) /\ RLt(dist5to17_mm, RInt(90)) THEN "Medium"
    ELSE "Large"

\* the per-frame palm-length classification
EstimatedPalmLength(dist0to9_mm) ==
    IF RLt(dist0to9_mm, RInt(80)) THEN "Small"
    ELSE IF RGe(dist0to9_mm, RInt(80)) /\ RLt(dist0to9_mm, RInt(100)) THEN "Medium"
    ELSE "Large"

\* mutant: the width class is taken from the millimeters before compensation
HistoryRecordClassifyingRawWidth(hand, card, pixelPerMm, t) ==
    LET valid        == pixelPerMm # Null /\ RGt(pixelPerMm, Zero)
        dist5to17_mm == IF valid
                        THEN RMul(RDiv(hand.dist5to17, pixelPerMm), PALM_WIDTH_COMPENSATION_FACTOR)
                        ELSE Null
        dist0to9_mm  == IF valid
                        THEN RMul(RDiv(hand.dist0to9, pixelPerMm), PALM_LENGTH_COMPENSATION_FACTOR)
                        ELSE Null
    IN  [timestamp           |-> ToLocaleTimeString(t),
         dist5to17           |-> hand.dist5to17,
         dist5to17_mm        |-> dist5to17_mm,
         estimatedPalmWidth  |-> IF valid
                                 THEN EstimatedPalmWidth(RDiv(hand.dist5to17, pixelPerMm))
                                 ELSE "N/A",
         dist0to9            |-> hand.dist0to9,
         dist0to9_mm         |-> dist0to9_mm,
         estimatedPalmLength |-> IF valid THEN EstimatedPalmLength(dist0to9_mm) ELSE "N/A",
         cardLongSide        |-> card.cardLongSide,
         cardShortSide       |-> card.cardShortSide]

\* the object pushed to measurementHistory
HistoryRecord(hand, card, pixelPerMm, t) ==
    LET valid        == pixelPerMm # Null /\ RGt(pixelPerMm, Zero)
        dist5to17_mm == IF valid
                        THEN RMul(RDiv(hand.dist5to17, pixelPerMm), PALM_WIDTH_COMPENSATION_FACTOR)
                        ELSE Null
        dist0to9_mm  == IF valid
                        THEN RMul(RDiv(hand.dist0to9, pixelPerMm), PALM_LENGTH_COMPENSATION_FACTOR)
                        ELSE Null
    IN  [timestamp           |-> ToLocaleTimeString(t),
         dist5to17           |-> hand.dist5to17,
         dist5to17_mm        |-> dist5to17_mm,
         estimatedPalmWidth  |-> IF valid THEN EstimatedPalmWidth(dist5to17_mm) ELSE "N/A",
         dist0to9            |-> hand.dist0to9,
         dist0to9_mm         |-> dist0to9_mm,
         estimatedPalmLength |-> IF valid THEN EstimatedPalmLength(dist0to9_mm) ELSE "N/A",
         cardLongSide        |-> card.cardLongSide,
         cardShortSide       |-> card.cardShortSide]

\* mutant: unshift instead of push
PushFront(history, record) == <<record>> \o history

\* measurementHistory.push(record)
Push(history, record) == Append(history, record)

\* mutant: a frame without a hand or without a detection starts the log afresh
HistoryAfterForgettingOnMiss(history, frame, t) ==
    LET hand       == HandMeasurements(frame.handResults, frame.canvasWidth, frame.canvasHeight)
        card       == CardMeasurements(frame.objectResults)
        pixelPerMm == PixelPerMm(card)
    IN  IF hand # Null /\ card # Null
        THEN Push(history, HistoryRecord(hand, card, pixelPerMm, t))
        ELSE <<>>

\* mutant: the card measurements of the last record stand in for a missing detection
HistoryAfterCarryingCard(history, frame, t) ==
    LET hand == HandMeasurements(frame.handResults, frame.canvasWidth, frame.canvasHeight)
        seen == CardMeasurements(frame.objectResults)
        card == IF seen = Null /\ history # <<>>
                THEN [cardLongSide  |-> history[Len(history)].cardLongSide,
                      cardShortSide |-> history[Len(history)].cardShortSide]
                ELSE seen
    IN  IF hand # Null /\ card # Null
        THEN Push(history, HistoryRecord(hand, card, PixelPerMm(card), t))
        ELSE history

\* mutant: a frame is captured only while the history is shorter than two records
HistoryAfterCapped(history, frame, t) ==
    LET hand == HandMeasurements(frame.handResults, frame.canvasWidth, frame.canvasHeight)
        card == CardMeasurements(frame.objectResults)
    IN  IF hand # Null /\ card # Null /\ Len(history) < 2
        THEN Push(history, HistoryRecord(hand, card, PixelPerMm(card), t))
        ELSE history

\* mutant: a frame whose ratio is undefined is not captured
HistoryAfterDroppingDegenerate(history, frame, t) ==
    LET hand == HandMeasurements(frame.handResults, frame.canvasWidth, frame.canvasHeight)
        card == CardMeasurements(frame.objectResults)
    IN  IF hand # Null /\ card # Null /\ PixelPerMm(card) # Null
        THEN Push(history, HistoryRecord(hand, card, PixelPerMm(card), t))
        ELSE history

\* mutant: pixelPerMm outlives the call: the ratio of the latest record with a
\* positive longer side is used when this frame's own ratio is undefined
HistoryAfterCarryingRatio(history, frame, t) ==
    LET hand    == HandMeasurements(frame.handResults, frame.canvasWidth, frame.canvasHeight)
        card    == CardMeasurements(frame.objectResults)
        own     == PixelPerMm(card)
        earlier == { i \in 1..Len(history) : RGt(history[i].cardLongSide, Zero) }
        latest  == CHOOSE i \in earlier : \A j \in earlier : j <= i
        ratio   == IF own = Null /\ earlier # {}
                   THEN RDiv(history[latest].cardLongSide, ACTUAL_CARD_LONG_SIDE_MM)
                   ELSE own
    IN  IF hand # Null /\ card # Null
        THEN Push(history, HistoryRecord(hand, card, ratio, t))
        ELSE history

\* measurementHistory after the capture block of one call
HistoryAfter(history, frame, t) ==
    LET hand == HandMeasurements(frame.handResults, frame.canvasWidth, frame.canvasHeight)
        card == CardMeasurements(frame.objectResults)
    IN  IF hand # Null /\ card # Null
        THEN Push(history, HistoryRecord(hand, card, PixelPerMm(card), t))
        ELSE history

-----------------------------------------------------------------------------
(* The averages shown at the top.                                           *)

\* array.reduce((sum, val) => sum + val, 0)
RECURSIVE SumOf(_)
SumOf(values) ==
    IF values = <<>> THEN Zero
    ELSE RAdd(SumOf(SubSeq(values, 1, Len(values) - 1)), values[Len(values)])

\* array.map(f)
MapSeq(f(_), seq) == [i \in 1..Len(seq) |-> f(seq[i])]

\* mutant: no filter, a null counts as 0
ValidPalmWidthsNullAsZero(history) ==
    LET mm(m) == IF m.dist5to17_mm # Null THEN m.dist5to17_mm ELSE Zero
    IN  MapSeq(mm, history)

\* measurementHistory.filter(m => m.dist5to17_mm !== null).map(m => m.dist5to17_mm)
ValidPalmWidths(history) ==
    LET keep(m) == m.dist5to17_mm # Null
        mm(m)   == m.dist5to17_mm
    IN  MapSeq(mm, SelectSeq(history, keep))

\* measurementHistory.filter(m => m.dist0to9_mm !== null).map(m => m.dist0to9_mm)
ValidPalmLengths(history) ==
    LET keep(m) == m.dist0to9_mm # Null
        mm(m)   == m.dist0to9_mm
    IN  MapSeq(mm, SelectSeq(history, keep))

\* the classification of the average palm width
AvgEstimatedPalmWidth(avgPalmWidth_mm) ==
    IF RLt(avgPalmWidth_mm, RInt(80)) THEN "Small"
    ELSE IF RGe(avgPalmWidth_mm, RInt(80)) /\ RLt(avgPalmWidth_mm, RInt(90)) THEN "Medium"
    ELSE "Large"

\* mutant: the average is classified with the palm-width thresholds
AvgEstimatedPalmLengthAsWidth(avgPalmLength_mm) == AvgEstimatedPalmWidth(avgPalmLength_mm)

\* the classification of the average palm length
AvgEstimatedPalmLength(avgPalmLength_mm) ==
    IF RLt(avgPalmLength_mm, RInt(80)) THEN "Small"
    ELSE IF RGe(avgPalmLength_mm, RInt(80)) /\ RLt(avgPalmLength_mm, RInt(100)) THEN "Medium"
    ELSE "Large"

\* the three texts a display can hold; an estimate carries the toFixed(2) digits and the class
NotDetected(label) == [text |-> label \o ": Not detected"]
NoValid(label) == [text |-> label \o ": N/A (No valid measurements)"]
Estimate(label, avg_mm, class) ==
    [text |-> label \o ": ${mm} mm (${class})", mm |-> ToFixed2(avg_mm), class |-> class]

\* mutant: the initial text is shown until a first valid measurement is made
PalmWidthDisplayEstimateFirst(history) ==
    IF Len(ValidPalmWidths(history)) > 0
    THEN LET validPalmWidths == ValidPalmWidths(history)
             avgPalmWidth_mm == RDiv(SumOf(validPalmWidths), RInt(Len(validPalmWidths)))
         IN  Estimate("Palm Width", avgPalmWidth_mm, AvgEstimatedPalmWidth(avgPalmWidth_mm))
    ELSE Estimate("Palm Width", Zero, "Small")

\* currentPalmWidthDisplay.innerText after the call
PalmWidthDisplay(history) ==
    IF Len(history) > 0
    THEN LET validPalmWidths == ValidPalmWidths(history)
         IN  IF Len(validPalmWidths) > 0
             THEN LET avgPalmWidth_mm == RDiv(SumOf(validPalmWidths), RInt(Len(validPalmWidths)))
                  IN  Estimate("Palm Width", avgPalmWidth_mm, AvgEstimatedPalmWidth(avgPalmWidth_mm))
             ELSE NoValid("Palm Width")
    ELSE NotDetected("Palm Width")

\* mutant: the display follows the latest record only
PalmLengthDisplayOfLatest(history) ==
    IF Len(history) > 0
    THEN LET latest == history[Len(history)]
         IN  IF latest.dist0to9_mm # Null
             THEN Estimate("Palm Length", latest.dist0to9_mm,
                           AvgEstimatedPalmLength(latest.dist0to9_mm))
             ELSE NoValid("Palm Length")
    ELSE NotDetected("Palm Length")

\* currentPalmLengthDisplay.innerText after the call
PalmLengthDisplay(history) ==
    IF Len(history) > 0
    THEN LET validPalmLengths == ValidPalmLengths(history)
         IN  IF Len(validPalmLengths) > 0
             THEN LET avgPalmLength_mm == RDiv(SumOf(validPalmLengths), RInt(Len(validPalmLengths)))
                  IN  Estimate("Palm Length", avgPalmLength_mm, AvgEstimatedPalmLength(avgPalmLength_mm))
             ELSE NoValid("Palm Length")
    ELSE NotDetected("Palm Length")

-----------------------------------------------------------------------------
(* renderMeasurementHistory.                                                *)

\* mutant: the rows are laid out in stored order
InStoredOrder(seq) == seq

\* [...array].reverse()
Reversed(seq) == [i \in 1..Len(seq) |-> seq[Len(seq) + 1 - i]]

\* value ? value.toFixed(2) : 'N/A'  (null and 0 are falsy)
MmCell(value) == IF value # Null /\ value # Zero THEN ToFixed2(value) ELSE "N/A"

\* the <tr> of one measurement
HistoryRow(measurement) ==
    [timestamp           |-> measurement.timestamp,
     cardLongSide        |-> ToFixed2(measurement.cardLongSide),
     cardShortSide       |-> ToFixed2(measurement.cardShortSide),
     dist5to17           |-> ToFixed2(measurement.dist5to17),
     dist5to17_mm        |-> MmCell(measurement.dist5to17_mm),
     estimatedPalmWidth  |-> measurement.estimatedPalmWidth,
     dist0to9            |-> ToFixed2(measurement.dist0to9),
     dist0to9_mm         |-> MmCell(measurement.dist0to9_mm),
     estimatedPalmLength |-> measurement.estimatedPalmLength]

\* the content of measurementHistoryContainer after rendering
RenderMeasurementHistory(history) ==
    IF Len(history) = 0
    THEN [noData |-> TRUE, rows |-> <<>>]
    ELSE [noData |-> FALSE, rows |-> MapSeq(HistoryRow, Reversed(history))]

-----------------------------------------------------------------------------
(* The state machine.                                                       *)

\* the frame carries a first hand with at least 18 landmarks
HasUsableHand(frame) ==
    /\ Len(frame.handResults.landmarks) > 0
    /\ Len(frame.handResults.landmarks[1]) >= 18

\* the frame carries at least one object detection
HasDetection(frame) == Len(frame.objectResults.detections) > 0

HasBoth(frame) == HasUsableHand(frame) /\ HasDetection(frame)

\* the module-level state of handDetection.js when the script has loaded
CameraInit ==
    /\ webcamRunning = FALSE
    /\ currentStream = Null
    /\ liveStreams = {}
    /\ selectedDeviceId = ""
    /\ currentCameraIndex = 0
    /\ enableCamButtonText = "Enable Camera"
    /\ displayShown = FALSE
    /\ changeListener = FALSE
    /\ clickListener = FALSE
    /\ loadeddataListener = FALSE
    /\ loadeddataDue = FALSE
    /\ streamsRequested = 0
    /\ videoTime = 0
    /\ lastVideoTime = -1
    /\ frameCount = 0
    /\ latestHandResults = Null
    /\ latestObjectResults = Null
    /\ lastHandDetectedState = FALSE
    /\ lastCellPhoneDetectedState = FALSE
    /\ rafPending = 0
    /\ stack = Null
    /\ suspended = <<>>
    /\ capturedBeforeDisable = -1
    /\ consoleLog = <<>>
    /\ lastHandMessage = ""
    /\ lastCellPhoneMessage = ""
    /\ userDisabled = FALSE
    /\ availableVideoDevices = <<>>
    /\ effectiveSwitches = 0

\* cardDetection.js as loaded: the guard is free, no tick has run
CardInit ==
    /\ processingCard = FALSE
    /\ cvLoaded = FALSE
    /\ videoReady = FALSE
    /\ cardTicks = 0
    /\ cardRuns = 0
    /\ cardConsole = ""
    /\ liveMats = 0
    /\ overlayShown = FALSE

\* the legacy displays after the legacy createMeasurementDisplayElements
LegacyInit ==
    /\ dist5to17Display = [text |-> "Distance (Landmark 5 to 17): Not detected"]
    /\ dist0to9Display = [text |-> "Distance (Landmark 0 to 9): Not detected"]
    /\ cardLongSideDisplay = [text |-> "Card Longer Side: Not detected"]
    /\ cardShortSideDisplay = [text |-> "Card Shorter Side: Not detected"]
    /\ legacyFrame = Null

\* after createMeasurementDisplayElements ran on DOMContentLoaded
Init ==
    /\ measurementHistory = <<>>
    /\ currentPalmWidthDisplay = NotDetected("Palm Width")
    /\ currentPalmLengthDisplay = NotDetected("Palm Length")
    /\ measurementHistoryContainer = RenderMeasurementHistory(<<>>)
    /\ now = 0
    /\ calls = 0
    /\ bothLog = <<>>
    /\ boxSeen = FALSE
    /\ handOnlyCalls = 0
    /\ threw = FALSE
    /\ classifyIn = Null
    /\ classifyOut = Null
    /\ LegacyInit
    /\ CardInit
    /\ CameraInit

\* one call of updateMeasurementDisplays(handResults, objectResults, canvasWidth, canvasHeight)
UpdateMeasurementDisplays(frame) ==
    /\ calls < MaxCalls
    /\ threw' = HandBlockThrows(frame.handResults)
    /\ IF threw'
       THEN \* the TypeError leaves the function before anything is written
            UNCHANGED <<measurementHistory, currentPalmWidthDisplay,
                        currentPalmLengthDisplay, measurementHistoryContainer>>
       ELSE /\ measurementHistory' = HistoryAfter(measurementHistory, frame, now)
            /\ currentPalmWidthDisplay' = PalmWidthDisplay(measurementHistory')
            /\ currentPalmLengthDisplay' = PalmLengthDisplay(measurementHistory')
            /\ measurementHistoryContainer' = RenderMeasurementHistory(measurementHistory')
    /\ calls' = calls + 1
    /\ bothLog' = IF HasBoth(frame) THEN Append(bothLog, frame) ELSE bothLog
    /\ boxSeen' = (boxSeen \/ HasDetection(frame))
    /\ handOnlyCalls' = IF HasUsableHand(frame) /\ ~HasDetection(frame)
                        THEN handOnlyCalls + 1 ELSE handOnlyCalls
    /\ UNCHANGED <<now, classifyVars, legacyVars, cameraVars, cardVars>>

\* a second passes on the wall clock
Tick ==
    /\ now < MaxClock
    /\ now' = now + 1
    /\ UNCHANGED <<measurementHistory, currentPalmWidthDisplay, currentPalmLengthDisplay,
                   measurementHistoryContainer, calls, bothLog, boxSeen,
                   handOnlyCalls, threw, classifyVars, legacyVars, cameraVars, cardVars>>

Next ==
    \/ \E frame \in Frames : UpdateMeasurementDisplays(frame)
    \/ Tick

Spec == Init /\ [][Next]_vars

-----------------------------------------------------------------------------
(* The classification sites on their own: one frame whose compensated      *)
(* values are both a chosen millimeter value, recorded and then averaged.   *)

\* the millimeter values 0, 0.5, 1, ... fed to the classification sites
MmInputs == { Rat(n, 2) : n \in 0..MaxHalfMm }

InitClassify ==
    /\ measurementHistory = <<>>
    /\ currentPalmWidthDisplay = NotDetected("Palm Width")
    /\ currentPalmLengthDisplay = NotDetected("Palm Length")
    /\ measurementHistoryContainer = RenderMeasurementHistory(<<>>)
    /\ now = 0
    /\ calls = 0
    /\ bothLog = <<>>
    /\ boxSeen = FALSE
    /\ handOnlyCalls = 0
    /\ threw = FALSE
    /\ classifyIn \in MmInputs
    /\ classifyOut = Null
    /\ LegacyInit
    /\ CardInit
    /\ CameraInit

\* the capture block and the averages for a frame calibrated at 1 px/mm whose
\* compensated distances are both classifyIn
ClassifyFrame ==
    /\ classifyOut = Null
    /\ LET hand   == [dist5to17 |-> RDiv(classifyIn, PALM_WIDTH_COMPENSATION_FACTOR),
                      dist0to9  |-> RDiv(classifyIn, PALM_LENGTH_COMPENSATION_FACTOR)]
           card   == [cardLongSide |-> ACTUAL_CARD_LONG_SIDE_MM, cardShortSide |-> Zero]
           record == HistoryRecord(hand, card, PixelPerMm(card), now)
       IN  classifyOut' = [record |-> record,
                           width  |-> PalmWidthDisplay(<<record>>),
                           length |-> PalmLengthDisplay(<<record>>)]
    /\ UNCHANGED <<measureVars, classifyIn, legacyVars, cameraVars, cardVars>>

NextClassify == ClassifyFrame

SpecClassify == InitClassify /\ [][NextClassify]_vars

-----------------------------------------------------------------------------
(* The legacy version of app/js/measurement.js: no history, four displays   *)
(* of the raw pixel values.                                                 *)

\* the radicand of distance5To17: landmark5.y is scaled by canvasWidth
LegacyDistance5To17Squared(landmark5, landmark17, canvasWidth, canvasHeight) ==
    LET landmark5X_px  == RMul(landmark5.x, RInt(canvasWidth))
        landmark5Y_px  == RMul(landmark5.y, RInt(canvasWidth))
        landmark17X_px == RMul(landmark17.x, RInt(canvasWidth))
        landmark17Y_px == RMul(landmark17.y, RInt(canvasHeight))
    IN  RAdd(RSquare(RSub(landmark17X_px, landmark5X_px)),
             RSquare(RSub(landmark17Y_px, landmark5Y_px)))

\* the radicand of distance0To9
LegacyDistance0To9Squared(landmark0, landmark9, canvasWidth, canvasHeight) ==
    LET landmark0X_px == RMul(landmark0.x, RInt(canvasWidth))
        landmark0Y_px == RMul(landmark0.y, RInt(canvasHeight))
        landmark9X_px == RMul(landmark9.x, RInt(canvasWidth))
        landmark9Y_px == RMul(landmark9.y, RInt(canvasHeight))
    IN  RAdd(RSquare(RSub(landmark9X_px, landmark0X_px)),
             RSquare(RSub(landmark9Y_px, landmark0Y_px)))

LegacyPixels(label, px) == [text |-> label \o ": ${px} pixels", px |-> px]

LegacyMissing(label, why) == [text |-> label \o ": " \o why]

\* the two hand displays after the hand block
LegacyHandDisplays(handResults, canvasWidth, canvasHeight) ==
    IF HandCurrentlyDetected(handResults)
    THEN LET landmarks == handResults.landmarks[1]
         IN  IF landmarks # Null /\ Len(landmarks) >= 18
             THEN [dist5to17 |->
                       LegacyPixels("Distance (Landmark 5 to 17)",
                           SqrtToFixed2(LegacyDistance5To17Squared(
                               Landmark(landmarks, 5), Landmark(landmarks, 17),
                               canvasWidth, canvasHeight))),
                   dist0to9 |->
                       LegacyPixels("Distance (Landmark 0 to 9)",
                           SqrtToFixed2(LegacyDistance0To9Squared(
                               Landmark(landmarks, 0), Landmark(landmarks, 9),
                               canvasWidth, canvasHeight)))]
             ELSE [dist5to17 |-> LegacyMissing("Distance (Landmark 5 to 17)", "Not enough landmarks"),
                   dist0to9  |-> LegacyMissing("Distance (Landmark 0 to 9)", "Not enough landmarks")]
    ELSE [dist5to17 |-> LegacyMissing("Distance (Landmark 5 to 17)", "Not detected"),
          dist0to9  |-> LegacyMissing("Distance (Landmark 0 to 9)", "Not detected")]

\* the two card displays after the card block: the sides as detected
LegacyCardDisplays(objectResults) ==
    IF CellPhoneCurrentlyDetected(objectResults)
    THEN LET bbox        == objectResults.detections[1].boundingBox
             width_px    == bbox.width
             height_px   == bbox.height
             longerSide  == RMax(width_px, height_px)
             shorterSide == RMin(width_px, height_px)
         IN  [long  |-> LegacyPixels("Card Longer Side", ToFixed2(longerSide)),
              short |-> LegacyPixels("Card Shorter Side", ToFixed2(shorterSide))]
    ELSE [long  |-> LegacyMissing("Card Longer Side", "Not detected"),
          short |-> LegacyMissing("Card Shorter Side", "Not detected")]

\* landmarks 5-17 and 0-9 are a vertical pair each
SideHand == Hand(21, Point(5, 6), Point(4, 4), Point(5, 3), Point(4, 6), Point(5, 5))

LegacyHandInputs ==
    { [landmarks |-> <<>>],
      [landmarks |-> <<ShortHand>>],
      [landmarks |-> <<OpenHand>>],
      [landmarks |-> <<SideHand>>] }

\* landscape, portrait and square canvases
LegacyCanvasSizes == { <<640, 480>>, <<480, 640>>, <<500, 500>> }

LegacyFrames ==
    { [handResults |-> h, objectResults |-> o, canvasWidth |-> c[1], canvasHeight |-> c[2]] :
        h \in LegacyHandInputs, o \in ObjectInputs, c \in LegacyCanvasSizes }

\* one call of the legacy updateMeasurementDisplays
LegacyUpdateMeasurementDisplays(frame) ==
    /\ calls < MaxCalls
    /\ LET hand == LegacyHandDisplays(frame.handResults, frame.canvasWidth, frame.canvasHeight)
           card == LegacyCardDisplays(frame.objectResults)
       IN  /\ dist5to17Display' = hand.dist5to17
           /\ dist0to9Display' = hand.dist0to9
           /\ cardLongSideDisplay' = card.long
           /\ cardShortSideDisplay' = card.short
    /\ legacyFrame' = frame
    /\ calls' = calls + 1
    /\ UNCHANGED <<measurementHistory, currentPalmWidthDisplay, currentPalmLengthDisplay,
                   measurementHistoryContainer, now, bothLog, boxSeen, handOnlyCalls,
                   threw, classifyVars, cameraVars, cardVars>>

NextLegacy == \E frame \in LegacyFrames : LegacyUpdateMeasurementDisplays(frame)

SpecLegacy == Init /\ [][NextLegacy]_vars

-----------------------------------------------------------------------------
(* updateMeasurementDisplays on the frames at the edge of what MediaPipe    *)
(* delivers: degenerate and negative boxes, several hands, several          *)
(* detections, the same hand with its other landmarks elsewhere.            *)

\* the landmarks 0, 5, 9, 17 of OpenHand, every other landmark in a corner
OpenHandElsewhere == Hand(21, Point(5, 5), Point(4, 4), Point(5, 3), Point(6, 4), Point(1, 9))

EdgeHandInputs ==
    { [landmarks |-> <<>>],
      [landmarks |-> <<ShortHand>>],
      [landmarks |-> <<OpenHand>>],
      [landmarks |-> <<OpenHandElsewhere>>],
      [landmarks |-> <<OpenHand, WideHand>>] }

EdgeObjectInputs ==
    { [detections |-> <<>>],
      [detections |-> <<Detection(0, 0)>>],
      [detections |-> <<Detection(-300, -189)>>],
      [detections |-> <<Detection(300, 189)>>],
      [detections |-> <<Detection(600, 189)>>],
      [detections |-> <<DetectionAt(200, 100, 300, 189)>>],
      [detections |-> <<Detection(300, 189), Detection(220, 350)>>] }

EdgeFrames ==
    { [handResults |-> h, objectResults |-> o, canvasWidth |-> c[1], canvasHeight |-> c[2]] :
        h \in EdgeHandInputs, o \in EdgeObjectInputs, c \in CanvasSizes }

NextEdge ==
    \E frame \in EdgeFrames : calls < MaxEdgeCalls /\ UpdateMeasurementDisplays(frame)

SpecEdge == Init /\ [][NextEdge]_vars

-----------------------------------------------------------------------------
(* handDetection.js: the camera controls and the prediction loop that calls *)
(* updateMeasurementDisplays.  A handler runs from the moment the event     *)
(* loop starts it until it returns or reaches an await; an activation that  *)
(* awaits leaves the call stack and is resumed by a later task.             *)

\* navigator.mediaDevices.enumerateDevices(): the video inputs, by deviceId
Devices == <<"camera-1", "camera-2">>

\* the MediaStream that the k-th getUserMedia call resolves to
Stream(k) == [id |-> k]

\* currentStream.getTracks().forEach(track => track.stop()), if (currentStream)
TracksStopped(streams, stream) == IF stream # Null THEN streams \ {stream} ELSE streams

\* mutant: updateMeasurementDisplays awaits between its capture block and its
\* aggregation
PredictWebcamAwaitsInUpdate == {"aggregate"}

\* the positions of predictWebcam at which it awaits: its body holds no await
PredictWebcamAwaits == {}

\* the predictWebcam activation at position pc
PredictWebcamAt(pc) == [fn |-> "predictWebcam", pc |-> pc]

\* the setupCamera activation awaiting the request-th getUserMedia
SetupCameraAwaiting(caller, request) ==
    [fn |-> "setupCamera", pc |-> "getUserMedia", caller |-> caller, request |-> request]

Remove(seq, i) == SubSeq(seq, 1, i - 1) \o SubSeq(seq, i + 1, Len(seq))

\* no handler is running: the event loop may start a task
StackEmpty == stack = Null

\* the predictWebcam activations that can take their step at pc: the one on the
\* stack (0), or with an empty stack a suspended one whose await has settled
RunnableAt(pc) ==
    { h \in 0..Len(suspended) :
        IF h = 0 THEN stack # Null /\ stack.pc = pc
        ELSE StackEmpty /\ suspended[h] = PredictWebcamAt(pc) }

\* the stack and the suspended activations once activation h has moved on to pc
\* ("return" ends it): an activation that reaches an await leaves the stack
MovedTo(h, pc) ==
    LET others == IF h = 0 THEN suspended ELSE Remove(suspended, h)
    IN  IF pc = "return" THEN [stack |-> Null, suspended |-> others]
        ELSE IF pc \in PredictWebcamAwaits
             THEN [stack |-> Null, suspended |-> Append(others, PredictWebcamAt(pc))]
             ELSE [stack |-> PredictWebcamAt(pc), suspended |-> others]

\* the results the two models return for a video frame: nothing in view, or a hand
\* next to the card
CameraDetections ==
    { [handResults |-> [landmarks |-> <<>>], objectResults |-> [detections |-> <<>>]],
      [handResults |-> [landmarks |-> <<OpenHand>>],
       objectResults |-> [detections |-> <<Detection(300, 189)>>]] }

\* canvasElement.width and .height: the 640x480 asked of getUserMedia
VideoWidth == 640
VideoHeight == 480

\* the arguments predictWebcam passes to updateMeasurementDisplays
CurrentFrame ==
    [handResults |-> latestHandResults, objectResults |-> latestObjectResults,
     canvasWidth |-> VideoWidth, canvasHeight |-> VideoHeight]

\* setupCamera up to its await: the tracks of the existing stream are stopped
\* and getUserMedia is called; the activation waits for the stream
SetupCamera(caller) ==
    /\ streamsRequested < MaxStreams
    /\ liveStreams' = TracksStopped(liveStreams, currentStream)
    /\ streamsRequested' = streamsRequested + 1
    /\ suspended' = Append(suspended, SetupCameraAwaiting(caller, streamsRequested + 1))

\* the DOMContentLoaded handler up to the await of its setupCamera call: the
\* first camera is selected, the change listener registered, the camera enabled
DOMContentLoaded ==
    /\ ~changeListener
    /\ StackEmpty
    /\ selectedDeviceId' = Devices[1]
    /\ changeListener' = TRUE
    /\ SetupCamera("DOMContentLoaded")
    /\ UNCHANGED <<measureVars, classifyVars, legacyVars, cardVars, deviceVars,
                   webcamRunning, currentStream, currentCameraIndex, enableCamButtonText,
                   displayShown, clickListener, loadeddataListener, loadeddataDue,
                   videoTime, lastVideoTime, frameCount, latestHandResults, latestObjectResults,
                   lastHandDetectedState, lastCellPhoneDetectedState, rafPending, stack,
                   capturedBeforeDisable, logVars, userDisabled>>

\* the "change" handler of cameraSelect, up to the await of its setupCamera call
CameraSelectChange(deviceId) ==
    /\ changeListener
    /\ StackEmpty
    /\ deviceId # selectedDeviceId
    /\ selectedDeviceId' = deviceId
    /\ IF webcamRunning
       THEN SetupCamera("change")
       ELSE UNCHANGED <<liveStreams, streamsRequested, suspended>>
    /\ UNCHANGED <<measureVars, classifyVars, legacyVars, cardVars, deviceVars,
                   webcamRunning, currentStream, currentCameraIndex, enableCamButtonText,
                   displayShown, changeListener, clickListener, loadeddataListener,
                   loadeddataDue, videoTime, lastVideoTime, frameCount, latestHandResults,
                   latestObjectResults, lastHandDetectedState, lastCellPhoneDetectedState,
                   rafPending, stack, capturedBeforeDisable, logVars, userDisabled>>

\* switchCamera, up to the await of its setupCamera call
SwitchCamera ==
    /\ clickListener
    /\ StackEmpty
    /\ webcamRunning /\ Len(Devices) > 1
    /\ currentCameraIndex' = (currentCameraIndex + 1) % Len(Devices)
    /\ effectiveSwitches' = effectiveSwitches + 1
    /\ SetupCamera("switchCamera")
    /\ UNCHANGED <<measureVars, classifyVars, legacyVars, cardVars, availableVideoDevices,
                   webcamRunning, currentStream, selectedDeviceId, enableCamButtonText,
                   displayShown, changeListener, clickListener, loadeddataListener,
                   loadeddataDue, videoTime, lastVideoTime, frameCount, latestHandResults,
                   latestObjectResults, lastHandDetectedState, lastCellPhoneDetectedState,
                   rafPending, stack, capturedBeforeDisable, logVars, userDisabled>>

\* the click handler of enableCamButton with the camera off, up to the await of
\* its setupCamera call
ClickEnableCamera ==
    /\ clickListener
    /\ StackEmpty
    /\ ~webcamRunning
    /\ selectedDeviceId # ""
    /\ SetupCamera("click")
    /\ userDisabled' = FALSE
    /\ UNCHANGED <<measureVars, classifyVars, legacyVars, cardVars, deviceVars,
                   webcamRunning, currentStream, selectedDeviceId, currentCameraIndex,
                   enableCamButtonText, displayShown, changeListener, clickListener,
                   loadeddataListener, loadeddataDue, videoTime, lastVideoTime, frameCount,
                   latestHandResults, latestObjectResults, lastHandDetectedState,
                   lastCellPhoneDetectedState, rafPending, stack, capturedBeforeDisable,
                   logVars>>

\* mutant: disabling the camera starts a new measurement session
ClickDisableCameraClearingHistory ==
    /\ clickListener
    /\ StackEmpty
    /\ webcamRunning
    /\ webcamRunning' = FALSE
    /\ enableCamButtonText' = "Enable Camera"
    /\ liveStreams' = TracksStopped(liveStreams, currentStream)
    /\ displayShown' = FALSE
    /\ lastHandDetectedState' = FALSE
    /\ lastCellPhoneDetectedState' = FALSE
    /\ frameCount' = 0
    /\ measurementHistory' = <<>>
    /\ capturedBeforeDisable' = Len(measurementHistory)
    /\ userDisabled' = TRUE
    /\ UNCHANGED <<currentPalmWidthDisplay, currentPalmLengthDisplay,
                   measurementHistoryContainer, now, calls, bothLog, boxSeen,
                   handOnlyCalls, threw, classifyVars, legacyVars, cardVars, deviceVars,
                   currentStream, selectedDeviceId, currentCameraIndex, changeListener,
                   clickListener, loadeddataListener, loadeddataDue, streamsRequested,
                   videoTime, lastVideoTime, latestHandResults, latestObjectResults, rafPending, stack,
                   suspended, logVars>>

\* mutant: the Disable branch leaves the frame counter and the detection states
ClickDisableCameraKeepingCounters ==
    /\ clickListener
    /\ StackEmpty
    /\ webcamRunning
    /\ webcamRunning' = FALSE
    /\ enableCamButtonText' = "Enable Camera"
    /\ liveStreams' = TracksStopped(liveStreams, currentStream)
    /\ displayShown' = FALSE
    /\ capturedBeforeDisable' = Len(measurementHistory)
    /\ userDisabled' = TRUE
    /\ UNCHANGED <<measureVars, classifyVars, legacyVars, cardVars, deviceVars,
                   currentStream, selectedDeviceId, currentCameraIndex, changeListener,
                   clickListener, loadeddataListener, loadeddataDue, streamsRequested,
                   videoTime, lastVideoTime, latestHandResults, latestObjectResults, rafPending, stack,
                   suspended, logVars, lastHandDetectedState, lastCellPhoneDetectedState,
                   frameCount>>

\* the click handler of enableCamButton with the camera on
ClickDisableCamera ==
    /\ clickListener
    /\ StackEmpty
    /\ webcamRunning
    /\ webcamRunning' = FALSE
    /\ enableCamButtonText' = "Enable Camera"
    /\ liveStreams' = TracksStopped(liveStreams, currentStream)
    /\ displayShown' = FALSE
    /\ lastHandDetectedState' = FALSE
    /\ lastCellPhoneDetectedState' = FALSE
    /\ frameCount' = 0
    /\ capturedBeforeDisable' = Len(measurementHistory)
    /\ userDisabled' = TRUE
    /\ UNCHANGED <<measureVars, classifyVars, legacyVars, cardVars, deviceVars,
                   currentStream, selectedDeviceId, currentCameraIndex, changeListener,
                   clickListener, loadeddataListener, loadeddataDue, streamsRequested,
                   videoTime, lastVideoTime, latestHandResults, latestObjectResults, rafPending, stack,
                   suspended, logVars>>

\* the handler that called setupCamera runs on when setupCamera has returned:
\* the DOMContentLoaded handler registers the click listener
CallerResumes(caller) ==
    clickListener' = (clickListener \/ caller = "DOMContentLoaded")

\* getUserMedia resolves: setupCamera resumes in its try block
SetupCameraResumes(i) ==
    /\ StackEmpty
    /\ suspended[i].fn = "setupCamera"
    /\ currentStream' = Stream(suspended[i].request)
    /\ liveStreams' = liveStreams \cup {Stream(suspended[i].request)}
    /\ videoTime' = 0
    /\ loadeddataDue' = TRUE
    /\ loadeddataListener' = TRUE
    /\ displayShown' = TRUE
    /\ webcamRunning' = TRUE
    /\ enableCamButtonText' = "Disable Camera"
    /\ suspended' = Remove(suspended, i)
    /\ CallerResumes(suspended[i].caller)
    /\ IF webcamRunning
       THEN UNCHANGED <<lastHandMessage, lastCellPhoneMessage>>
       ELSE lastHandMessage' = "" /\ lastCellPhoneMessage' = ""
    /\ UNCHANGED <<measureVars, classifyVars, legacyVars, cardVars, deviceVars,
                   selectedDeviceId, currentCameraIndex, changeListener, streamsRequested,
                   lastVideoTime, frameCount, latestHandResults, latestObjectResults,
                   lastHandDetectedState, lastCellPhoneDetectedState, rafPending, stack,
                   capturedBeforeDisable, consoleLog, userDisabled>>

\* getUserMedia rejects: setupCamera resumes in its catch block
SetupCameraCatches(i) ==
    /\ StackEmpty
    /\ suspended[i].fn = "setupCamera"
    /\ webcamRunning' = FALSE
    /\ enableCamButtonText' = "Enable Camera"
    /\ displayShown' = FALSE
    /\ suspended' = Remove(suspended, i)
    /\ CallerResumes(suspended[i].caller)
    /\ UNCHANGED <<measureVars, classifyVars, legacyVars, cardVars, deviceVars,
                   currentStream, liveStreams, selectedDeviceId, currentCameraIndex,
                   changeListener, loadeddataListener, loadeddataDue, streamsRequested,
                   videoTime, lastVideoTime, frameCount, latestHandResults, latestObjectResults,
                   lastHandDetectedState, lastCellPhoneDetectedState, rafPending, stack,
                   capturedBeforeDisable, logVars, userDisabled>>

\* the video plays: video.currentTime moves on (the position that scripts read is
\* held still while a script runs)
VideoAdvances ==
    /\ StackEmpty
    /\ currentStream \in liveStreams
    /\ videoTime < MaxVideoTime
    /\ videoTime' = videoTime + 1
    /\ UNCHANGED <<measureVars, classifyVars, legacyVars, cardVars, deviceVars,
                   webcamRunning, currentStream, liveStreams, selectedDeviceId,
                   currentCameraIndex, enableCamButtonText, displayShown, changeListener,
                   clickListener, loadeddataListener, loadeddataDue, streamsRequested,
                   lastVideoTime, frameCount, latestHandResults, latestObjectResults,
                   lastHandDetectedState, lastCellPhoneDetectedState, rafPending, stack,
                   suspended, capturedBeforeDisable, logVars, userDisabled>>

\* the video fires "loadeddata": the once-listener, if any, is removed and
\* predictWebcam is called
LoadedData ==
    /\ StackEmpty
    /\ loadeddataDue
    /\ loadeddataDue' = FALSE
    /\ loadeddataListener' = FALSE
    /\ IF loadeddataListener
       THEN /\ stack' = MovedTo(0, "frame").stack
            /\ suspended' = MovedTo(0, "frame").suspended
       ELSE UNCHANGED <<stack, suspended>>
    /\ UNCHANGED <<measureVars, classifyVars, legacyVars, cardVars, deviceVars,
                   webcamRunning, currentStream, liveStreams, selectedDeviceId,
                   currentCameraIndex, enableCamButtonText, displayShown, changeListener,
                   clickListener, streamsRequested, videoTime, lastVideoTime, frameCount,
                   latestHandResults, latestObjectResults, lastHandDetectedState,
                   lastCellPhoneDetectedState, rafPending, capturedBeforeDisable, logVars, userDisabled>>

\* the browser runs a pending requestAnimationFrame callback: predictWebcam is called
AnimationFrame ==
    /\ StackEmpty
    /\ rafPending > 0
    /\ rafPending' = rafPending - 1
    /\ stack' = MovedTo(0, "frame").stack
    /\ suspended' = MovedTo(0, "frame").suspended
    /\ UNCHANGED <<measureVars, classifyVars, legacyVars, cardVars, deviceVars,
                   webcamRunning, currentStream, liveStreams, selectedDeviceId,
                   currentCameraIndex, enableCamButtonText, displayShown, changeListener,
                   clickListener, loadeddataListener, loadeddataDue, streamsRequested,
                   videoTime, lastVideoTime, frameCount, latestHandResults, latestObjectResults,
                   lastHandDetectedState, lastCellPhoneDetectedState,
                   capturedBeforeDisable, logVars, userDisabled>>

\* the line the console output logic writes for one kind of detection, "" if none
EdgeMessage(kind, currentlyDetected, lastDetectedState) ==
    IF currentlyDetected /\ ~lastDetectedState THEN kind \o " detected"
    ELSE IF ~currentlyDetected /\ lastDetectedState THEN kind \o " not detected"
    ELSE ""

\* the lines of one detection pass, in the order written
Lines(handMessage, cellPhoneMessage) ==
    SelectSeq(<<handMessage, cellPhoneMessage>>, LAMBDA line : line # "")

\* predictWebcam up to its call of updateMeasurementDisplays: a new video time is
\* counted and every frameSkipInterval-th one is run through the two models
PredictWebcamFrame(h, detected) ==
    /\ h \in RunnableAt("frame")
    /\ IF lastVideoTime # videoTime
       THEN /\ lastVideoTime' = videoTime
            /\ frameCount' = frameCount + 1
            /\ IF frameCount' % frameSkipInterval = 0
               THEN LET handMessage ==
                            EdgeMessage("Hand", HandCurrentlyDetected(detected.handResults),
                                        lastHandDetectedState)
                        cellPhoneMessage ==
                            EdgeMessage("Cell phone",
                                        CellPhoneCurrentlyDetected(detected.objectResults),
                                        lastCellPhoneDetectedState)
                    IN  /\ latestHandResults' = detected.handResults
                        /\ latestObjectResults' = detected.objectResults
                        /\ consoleLog' = Lines(handMessage, cellPhoneMessage)
                        /\ lastHandMessage' =
                               IF handMessage # "" THEN handMessage ELSE lastHandMessage
                        /\ lastCellPhoneMessage' =
                               IF cellPhoneMessage # "" THEN cellPhoneMessage
                               ELSE lastCellPhoneMessage
                        /\ lastHandDetectedState' = HandCurrentlyDetected(latestHandResults')
                        /\ lastCellPhoneDetectedState' =
                               CellPhoneCurrentlyDetected(latestObjectResults')
                        /\ stack' = MovedTo(h, "update").stack
                        /\ suspended' = MovedTo(h, "update").suspended
               ELSE /\ stack' = MovedTo(h, "draw").stack
                    /\ suspended' = MovedTo(h, "draw").suspended
                    /\ UNCHANGED <<latestHandResults, latestObjectResults, lastHandDetectedState,
                                   lastCellPhoneDetectedState, logVars>>
       ELSE /\ stack' = MovedTo(h, "draw").stack
            /\ suspended' = MovedTo(h, "draw").suspended
            /\ UNCHANGED <<lastVideoTime, frameCount, latestHandResults, latestObjectResults,
                           lastHandDetectedState, lastCellPhoneDetectedState, logVars>>
    /\ UNCHANGED <<measureVars, classifyVars, legacyVars, cardVars, deviceVars,
                   webcamRunning, currentStream, liveStreams, selectedDeviceId,
                   currentCameraIndex, enableCamButtonText, displayShown, changeListener,
                   clickListener, loadeddataListener, loadeddataDue, streamsRequested,
                   videoTime, rafPending, capturedBeforeDisable, userDisabled>>

\* updateMeasurementDisplays, called by predictWebcam, through its capture block
UpdateMeasurementDisplaysPush(h) ==
    /\ h \in RunnableAt("update")
    /\ measurementHistory' = HistoryAfter(measurementHistory, CurrentFrame, now)
    /\ calls' = calls + 1
    /\ bothLog' = IF HasBoth(CurrentFrame) THEN Append(bothLog, CurrentFrame) ELSE bothLog
    /\ boxSeen' = (boxSeen \/ HasDetection(CurrentFrame))
    /\ handOnlyCalls' = IF HasUsableHand(CurrentFrame) /\ ~HasDetection(CurrentFrame)
                        THEN handOnlyCalls + 1 ELSE handOnlyCalls
    /\ stack' = MovedTo(h, "aggregate").stack
    /\ suspended' = MovedTo(h, "aggregate").suspended
    /\ UNCHANGED <<currentPalmWidthDisplay, currentPalmLengthDisplay,
                   measurementHistoryContainer, now, threw, classifyVars, legacyVars, cardVars, deviceVars,
                   webcamRunning, currentStream, liveStreams, selectedDeviceId,
                   currentCameraIndex, enableCamButtonText, displayShown, changeListener,
                   clickListener, loadeddataListener, loadeddataDue, streamsRequested,
                   videoTime, lastVideoTime, frameCount, latestHandResults, latestObjectResults,
                   lastHandDetectedState, lastCellPhoneDetectedState, rafPending,
                   capturedBeforeDisable, logVars, userDisabled>>

\* updateMeasurementDisplays from its aggregation to its return
UpdateMeasurementDisplaysPublish(h) ==
    /\ h \in RunnableAt("aggregate")
    /\ currentPalmWidthDisplay' = PalmWidthDisplay(measurementHistory)
    /\ currentPalmLengthDisplay' = PalmLengthDisplay(measurementHistory)
    /\ measurementHistoryContainer' = RenderMeasurementHistory(measurementHistory)
    /\ stack' = MovedTo(h, "draw").stack
    /\ suspended' = MovedTo(h, "draw").suspended
    /\ UNCHANGED <<measurementHistory, now, calls, bothLog, boxSeen, handOnlyCalls, threw,
                   classifyVars, legacyVars, cardVars, deviceVars,
                   webcamRunning, currentStream, liveStreams, selectedDeviceId,
                   currentCameraIndex, enableCamButtonText, displayShown, changeListener,
                   clickListener, loadeddataListener, loadeddataDue, streamsRequested,
                   videoTime, lastVideoTime, frameCount, latestHandResults, latestObjectResults,
                   lastHandDetectedState, lastCellPhoneDetectedState, rafPending,
                   capturedBeforeDisable, logVars, userDisabled>>

\* mutant: predictWebcam requests the next frame whether or not the webcam runs
PredictWebcamDrawAlwaysRequesting(h) ==
    /\ h \in RunnableAt("draw")
    /\ rafPending' = rafPending + 1
    /\ stack' = MovedTo(h, "return").stack
    /\ suspended' = MovedTo(h, "return").suspended
    /\ UNCHANGED <<measureVars, classifyVars, legacyVars, cardVars, deviceVars,
                   webcamRunning, currentStream, liveStreams, selectedDeviceId,
                   currentCameraIndex, enableCamButtonText, displayShown, changeListener,
                   clickListener, loadeddataListener, loadeddataDue, streamsRequested,
                   videoTime, lastVideoTime, frameCount, latestHandResults, latestObjectResults,
                   lastHandDetectedState, lastCellPhoneDetectedState,
                   capturedBeforeDisable, logVars, userDisabled>>

\* predictWebcam from its drawing to its return: the next frame is requested
\* while the webcam is running
PredictWebcamDraw(h) ==
    /\ h \in RunnableAt("draw")
    /\ rafPending' = IF webcamRunning THEN rafPending + 1 ELSE rafPending
    /\ stack' = MovedTo(h, "return").stack
    /\ suspended' = MovedTo(h, "return").suspended
    /\ UNCHANGED <<measureVars, classifyVars, legacyVars, cardVars, deviceVars,
                   webcamRunning, currentStream, liveStreams, selectedDeviceId,
                   currentCameraIndex, enableCamButtonText, displayShown, changeListener,
                   clickListener, loadeddataListener, loadeddataDue, streamsRequested,
                   videoTime, lastVideoTime, frameCount, latestHandResults, latestObjectResults,
                   lastHandDetectedState, lastCellPhoneDetectedState,
                   capturedBeforeDisable, logVars, userDisabled>>

\* the events of a loaded page
NextCameraOn ==
    \/ \E i \in 1..Len(Devices) : CameraSelectChange(Devices[i])
    \/ SwitchCamera
    \/ ClickEnableCamera
    \/ ClickDisableCamera
    \/ \E i \in 1..Len(suspended) : SetupCameraResumes(i)
    \/ \E i \in 1..Len(suspended) : SetupCameraCatches(i)
    \/ VideoAdvances
    \/ LoadedData
    \/ AnimationFrame
    \/ \E h \in 0..Len(suspended), detected \in CameraDetections :
           PredictWebcamFrame(h, detected)
    \/ \E h \in 0..Len(suspended) : UpdateMeasurementDisplaysPush(h)
    \/ \E h \in 0..Len(suspended) : UpdateMeasurementDisplaysPublish(h)
    \/ \E h \in 0..Len(suspended) : PredictWebcamDraw(h)

NextCamera ==
    \/ DOMContentLoaded
    \/ NextCameraOn

SpecCamera == Init /\ [][NextCamera]_vars

\* the invocation of predictWebcam on the call stack moves on to a later position
\* or returns
CallStackAdvances ==
    /\ stack # Null
    /\ \E pc \in {"update", "aggregate", "draw", "return"} : stack' = MovedTo(0, pc).stack

\* the browser's scheduling: a pending animation-frame callback is run in the end,
\* and a function that was called runs on to its end
SpecCameraFair ==
    SpecCamera /\ WF_vars(AnimationFrame) /\ WF_stack(CallStackAdvances)

\* the page once its DOMContentLoaded handler has run to its end: the first camera
\* is selected, both listeners are registered, and the setupCamera call of the
\* auto-enable has attached its stream (stream 0; the getUserMedia requests are
\* counted from here)
CameraOnInit ==
    /\ webcamRunning = TRUE
    /\ currentStream = Stream(0)
    /\ liveStreams = {Stream(0)}
    /\ selectedDeviceId = Devices[1]
    /\ currentCameraIndex = 0
    /\ enableCamButtonText = "Disable Camera"
    /\ displayShown = TRUE
    /\ changeListener = TRUE
    /\ clickListener = TRUE
    /\ loadeddataListener = TRUE
    /\ loadeddataDue = TRUE
    /\ streamsRequested = 0
    /\ videoTime = 0
    /\ lastVideoTime = -1
    /\ frameCount = 0
    /\ latestHandResults = Null
    /\ latestObjectResults = Null
    /\ lastHandDetectedState = FALSE
    /\ lastCellPhoneDetectedState = FALSE
    /\ rafPending = 0
    /\ stack = Null
    /\ suspended = <<>>
    /\ capturedBeforeDisable = -1
    /\ consoleLog = <<>>
    /\ lastHandMessage = ""
    /\ lastCellPhoneMessage = ""
    /\ userDisabled = FALSE
    /\ availableVideoDevices = <<>>
    /\ effectiveSwitches = 0

InitCameraOn ==
    /\ measurementHistory = <<>>
    /\ currentPalmWidthDisplay = NotDetected("Palm Width")
    /\ currentPalmLengthDisplay = NotDetected("Palm Length")
    /\ measurementHistoryContainer = RenderMeasurementHistory(<<>>)
    /\ now = 0
    /\ calls = 0
    /\ bothLog = <<>>
    /\ boxSeen = FALSE
    /\ handOnlyCalls = 0
    /\ threw = FALSE
    /\ classifyIn = Null
    /\ classifyOut = Null
    /\ LegacyInit
    /\ CardInit
    /\ CameraOnInit

SpecCameraOn == InitCameraOn /\ [][NextCameraOn]_vars

-----------------------------------------------------------------------------
(* src/unnamed/part_002: an earlier handDetection.js, whose click handler    *)
(* sets webcamRunning and the button text before it calls setupCamera and    *)
(* shows video and canvas after the call.                                    *)

\* the DOMContentLoaded handler: the first camera is selected and the two
\* listeners are registered; the camera is not enabled
DOMContentLoaded002 ==
    /\ ~changeListener
    /\ StackEmpty
    /\ selectedDeviceId' = Devices[1]
    /\ changeListener' = TRUE
    /\ clickListener' = TRUE
    /\ UNCHANGED <<measureVars, classifyVars, legacyVars, cardVars, deviceVars,
                   webcamRunning, currentStream, liveStreams, currentCameraIndex,
                   enableCamButtonText, displayShown, loadeddataListener, loadeddataDue,
                   streamsRequested, videoTime, lastVideoTime, frameCount, latestHandResults,
                   latestObjectResults, lastHandDetectedState, lastCellPhoneDetectedState,
                   rafPending, stack, suspended, capturedBeforeDisable, logVars,
                   userDisabled>>

\* the "change" handler of cameraSelect, up to the await of its setupCamera call
CameraSelectChange002(deviceId) ==
    /\ changeListener
    /\ StackEmpty
    /\ deviceId # selectedDeviceId
    /\ selectedDeviceId' = deviceId
    /\ IF webcamRunning
       THEN SetupCamera("change")
       ELSE UNCHANGED <<liveStreams, streamsRequested, suspended>>
    /\ UNCHANGED <<measureVars, classifyVars, legacyVars, cardVars, deviceVars,
                   webcamRunning, currentStream, currentCameraIndex, enableCamButtonText,
                   displayShown, changeListener, clickListener, loadeddataListener,
                   loadeddataDue, videoTime, lastVideoTime, frameCount, latestHandResults,
                   latestObjectResults, lastHandDetectedState, lastCellPhoneDetectedState,
                   rafPending, stack, capturedBeforeDisable, logVars, userDisabled>>

\* the click handler with the camera off, up to the await of its setupCamera call
ClickEnableCamera002 ==
    /\ clickListener
    /\ StackEmpty
    /\ ~webcamRunning
    /\ webcamRunning' = TRUE
    /\ enableCamButtonText' = "Disable Camera"
    /\ SetupCamera("click")
    /\ userDisabled' = FALSE
    /\ UNCHANGED <<measureVars, classifyVars, legacyVars, cardVars, deviceVars,
                   currentStream, selectedDeviceId, currentCameraIndex, displayShown,
                   changeListener, clickListener, loadeddataListener, loadeddataDue,
                   videoTime, lastVideoTime, frameCount, latestHandResults,
                   latestObjectResults, lastHandDetectedState, lastCellPhoneDetectedState,
                   rafPending, stack, capturedBeforeDisable, logVars>>

\* the click handler with the camera on: the tracks of video.srcObject, the
\* stream last attached, are stopped
ClickDisableCamera002 ==
    /\ clickListener
    /\ StackEmpty
    /\ webcamRunning
    /\ webcamRunning' = FALSE
    /\ enableCamButtonText' = "Enable Camera"
    /\ liveStreams' = TracksStopped(liveStreams, currentStream)
    /\ displayShown' = FALSE
    /\ lastHandDetectedState' = FALSE
    /\ lastCellPhoneDetectedState' = FALSE
    /\ frameCount' = 0
    /\ capturedBeforeDisable' = Len(measurementHistory)
    /\ userDisabled' = TRUE
    /\ UNCHANGED <<measureVars, classifyVars, legacyVars, cardVars, deviceVars,
                   currentStream, selectedDeviceId, currentCameraIndex, changeListener,
                   clickListener, loadeddataListener, loadeddataDue, streamsRequested,
                   videoTime, lastVideoTime, latestHandResults, latestObjectResults,
                   rafPending, stack, suspended, logVars>>

\* the handler that called setupCamera runs on when setupCamera has returned:
\* the click handler shows video and canvas
CallerResumes002(caller, shown) ==
    displayShown' = IF caller = "click" THEN TRUE ELSE shown

\* getUserMedia resolves: setupCamera attaches the stream and returns
SetupCameraResumes002(i) ==
    /\ StackEmpty
    /\ suspended[i].fn = "setupCamera"
    /\ currentStream' = Stream(suspended[i].request)
    /\ liveStreams' = liveStreams \cup {Stream(suspended[i].request)}
    /\ videoTime' = 0
    /\ loadeddataDue' = TRUE
    /\ loadeddataListener' = TRUE
    /\ suspended' = Remove(suspended, i)
    /\ CallerResumes002(suspended[i].caller, displayShown)
    /\ UNCHANGED <<measureVars, classifyVars, legacyVars, cardVars, deviceVars,
                   webcamRunning, enableCamButtonText, selectedDeviceId, currentCameraIndex,
                   changeListener, clickListener, streamsRequested, lastVideoTime,
                   frameCount, latestHandResults, latestObjectResults, lastHandDetectedState,
                   lastCellPhoneDetectedState, rafPending, stack, capturedBeforeDisable,
                   logVars, userDisabled>>

\* getUserMedia rejects: the catch block of setupCamera resets the state and
\* setupCamera returns normally
SetupCameraCatches002(i) ==
    /\ StackEmpty
    /\ suspended[i].fn = "setupCamera"
    /\ webcamRunning' = FALSE
    /\ enableCamButtonText' = "Enable Camera"
    /\ suspended' = Remove(suspended, i)
    /\ CallerResumes002(suspended[i].caller, FALSE)
    /\ UNCHANGED <<measureVars, classifyVars, legacyVars, cardVars, deviceVars,
                   currentStream, liveStreams, selectedDeviceId, currentCameraIndex,
                   changeListener, clickListener, loadeddataListener, loadeddataDue,
                   streamsRequested, videoTime, lastVideoTime, frameCount, latestHandResults,
                   latestObjectResults, lastHandDetectedState, lastCellPhoneDetectedState,
                   rafPending, stack, capturedBeforeDisable, logVars, userDisabled>>

NextCamera002 ==
    \/ DOMContentLoaded002
    \/ \E i \in 1..Len(Devices) : CameraSelectChange002(Devices[i])
    \/ ClickEnableCamera002
    \/ ClickDisableCamera002
    \/ \E i \in 1..Len(suspended) : SetupCameraResumes002(i)
    \/ \E i \in 1..Len(suspended) : SetupCameraCatches002(i)

SpecCamera002 == Init /\ [][NextCamera002]_vars

-----------------------------------------------------------------------------
(* src/unnamed/part_003: the handDetection.js with a Switch Camera button,   *)
(* which keeps the enumerated cameras in availableVideoDevices and the one   *)
(* in use in currentCameraIndex.                                             *)

\* the activation awaiting enumerateDevices inside populateCameraList
PopulateCameraListAwaiting(caller) ==
    [fn |-> "populateCameraList", pc |-> "enumerateDevices", caller |-> caller]

\* what enumerateDevices can resolve to: none, one or two video inputs
EnumeratedDevices == { SubSeq(Devices, 1, n) : n \in 0..Len(Devices) }

\* setupCamera of part_003 up to its await, called with the camera list and the
\* index in effect, the other awaiting activations being rest: the tracks of the
\* stream are stopped; with no camera the state is reset and the call returns;
\* availableVideoDevices[currentCameraIndex].deviceId throws a TypeError when
\* the index is outside the list; otherwise getUserMedia is called
SetupCamera003(caller, devices, index, rest) ==
    /\ liveStreams' = TracksStopped(liveStreams, currentStream)
    /\ IF Len(devices) = 0
       THEN /\ webcamRunning' = FALSE
            /\ enableCamButtonText' = "Enable Camera"
            /\ displayShown' = FALSE
            /\ suspended' = rest
            /\ clickListener' = (clickListener \/ caller = "DOMContentLoaded")
            /\ UNCHANGED streamsRequested
       ELSE IF index >= Len(devices)
       THEN /\ suspended' = rest
            /\ UNCHANGED <<webcamRunning, enableCamButtonText, displayShown, clickListener,
                           streamsRequested>>
       ELSE /\ streamsRequested < MaxStreams
            /\ streamsRequested' = streamsRequested + 1
            /\ suspended' = Append(rest, SetupCameraAwaiting(caller, streamsRequested + 1))
            /\ UNCHANGED <<webcamRunning, enableCamButtonText, displayShown, clickListener>>

\* the DOMContentLoaded handler up to the await of populateCameraList
DOMContentLoaded003 ==
    /\ ~clickListener
    /\ \A i \in 1..Len(suspended) : suspended[i].caller # "DOMContentLoaded"
    /\ suspended' = Append(suspended, PopulateCameraListAwaiting("DOMContentLoaded"))
    /\ UNCHANGED <<measureVars, classifyVars, legacyVars, cardVars, deviceVars,
                   webcamRunning, currentStream, liveStreams, selectedDeviceId,
                   currentCameraIndex, enableCamButtonText, displayShown, changeListener,
                   clickListener, loadeddataListener, loadeddataDue, streamsRequested,
                   videoTime, lastVideoTime, frameCount, latestHandResults,
                   latestObjectResults, lastHandDetectedState, lastCellPhoneDetectedState,
                   rafPending, stack, capturedBeforeDisable, logVars, userDisabled>>

\* populateCameraList returns with the camera list devices, and its caller runs
\* on: with a camera it calls setupCamera; without one the load handler resets
\* the button and registers the listeners, and the click handler returns
PopulateCameraListReturns(i, devices) ==
    /\ StackEmpty
    /\ suspended[i].fn = "populateCameraList"
    /\ availableVideoDevices' = devices
    /\ IF Len(devices) > 0
       THEN SetupCamera003(suspended[i].caller, devices, currentCameraIndex,
                           Remove(suspended, i))
       ELSE /\ suspended' = Remove(suspended, i)
            /\ IF suspended[i].caller = "DOMContentLoaded"
               THEN /\ webcamRunning' = FALSE
                    /\ enableCamButtonText' = "Enable Camera"
                    /\ clickListener' = TRUE
               ELSE UNCHANGED <<webcamRunning, enableCamButtonText, clickListener>>
            /\ UNCHANGED <<liveStreams, displayShown, streamsRequested>>
    /\ UNCHANGED <<measureVars, classifyVars, legacyVars, cardVars, effectiveSwitches,
                   currentStream, selectedDeviceId, currentCameraIndex, changeListener,
                   loadeddataListener, loadeddataDue, videoTime, lastVideoTime, frameCount,
                   latestHandResults, latestObjectResults, lastHandDetectedState,
                   lastCellPhoneDetectedState, rafPending, stack, capturedBeforeDisable,
                   logVars, userDisabled>>

\* enumerateDevices resolves
PopulateCameraListResumes(i, devices) == PopulateCameraListReturns(i, devices)

\* enumerateDevices rejects: the catch block leaves the list as it is
PopulateCameraListCatches(i) == PopulateCameraListReturns(i, availableVideoDevices)

\* the click handler of enableCamButton with the camera off, up to its first
\* await: of populateCameraList when no camera is known, of setupCamera otherwise
ClickEnableCamera003 ==
    /\ clickListener
    /\ StackEmpty
    /\ ~webcamRunning
    /\ userDisabled' = FALSE
    /\ IF Len(availableVideoDevices) = 0
       THEN /\ Len(suspended) < MaxPending
            /\ suspended' = Append(suspended, PopulateCameraListAwaiting("click"))
            /\ UNCHANGED <<liveStreams, webcamRunning, enableCamButtonText, displayShown,
                           streamsRequested, clickListener>>
       ELSE SetupCamera003("click", availableVideoDevices, currentCameraIndex, suspended)
    /\ UNCHANGED <<measureVars, classifyVars, legacyVars, cardVars, deviceVars,
                   currentStream, selectedDeviceId, currentCameraIndex, changeListener,
                   loadeddataListener, loadeddataDue, videoTime, lastVideoTime, frameCount,
                   latestHandResults, latestObjectResults, lastHandDetectedState,
                   lastCellPhoneDetectedState, rafPending, stack, capturedBeforeDisable,
                   logVars>>

\* switchCamera up to its return or the await of its setupCamera call, against
\* the camera list the page holds
SwitchCamera003 ==
    /\ clickListener
    /\ StackEmpty
    /\ IF ~webcamRunning \/ Len(availableVideoDevices) <= 1
       THEN UNCHANGED <<currentCameraIndex, effectiveSwitches, liveStreams, webcamRunning,
                        enableCamButtonText, displayShown, suspended, streamsRequested,
                        clickListener>>
       ELSE /\ currentCameraIndex' = (currentCameraIndex + 1) % Len(availableVideoDevices)
            /\ effectiveSwitches' = effectiveSwitches + 1
            /\ SetupCamera003("switchCamera", availableVideoDevices, currentCameraIndex',
                              suspended)
    /\ UNCHANGED <<measureVars, classifyVars, legacyVars, cardVars, availableVideoDevices,
                   currentStream, selectedDeviceId, changeListener,
                   loadeddataListener, loadeddataDue, videoTime, lastVideoTime, frameCount,
                   latestHandResults, latestObjectResults, lastHandDetectedState,
                   lastCellPhoneDetectedState, rafPending, stack, capturedBeforeDisable,
                   logVars, userDisabled>>

NextSwitch ==
    \/ DOMContentLoaded003
    \/ \E i \in 1..Len(suspended), devices \in EnumeratedDevices :
           PopulateCameraListResumes(i, devices)
    \/ \E i \in 1..Len(suspended) : PopulateCameraListCatches(i)
    \/ ClickEnableCamera003
    \/ ClickDisableCamera
    \/ SwitchCamera003
    \/ \E i \in 1..Len(suspended) : SetupCameraResumes(i)
    \/ \E i \in 1..Len(suspended) : SetupCameraCatches(i)

SpecSwitch == Init /\ [][NextSwitch]_vars

-----------------------------------------------------------------------------
(* updateMeasurementDisplays on hands whose landmarks of a pair coincide.    *)

\* landmarks 5 and 17 at the same point (0 px apart), 0-9 are 96 px apart
EdgeOnHand == Hand(21, Point(5, 5), Point(4, 4), Point(5, 3), Point(4, 4), Point(5, 5))

\* landmarks 0 and 9 at the same point (0 px apart), 5-17 are 128 px apart
FoldedHand == Hand(21, Point(5, 5), Point(4, 4), Point(5, 5), Point(6, 4), Point(5, 5))

CoincidentHandInputs ==
    { [landmarks |-> <<>>],
      [landmarks |-> <<OpenHand>>],
      [landmarks |-> <<EdgeOnHand>>],
      [landmarks |-> <<FoldedHand>>] }

CoincidentFrames ==
    { [handResults |-> h, objectResults |-> o, canvasWidth |-> c[1], canvasHeight |-> c[2]] :
        h \in CoincidentHandInputs, o \in ObjectInputs, c \in CanvasSizes }

NextCoincident ==
    \E frame \in CoincidentFrames : UpdateMeasurementDisplays(frame)

SpecCoincident == Init /\ [][NextCoincident]_vars

-----------------------------------------------------------------------------
(* src/unnamed/part_001, cardDetection.js: detectCard, run every second by   *)
(* cardDetectionInterval.  The function is synchronous, so one tick is one   *)
(* step.                                                                     *)

\* the cv objects detectCard creates before its try block: src, dst, gray, blur,
\* edges, contours, hierarchy
MatsBeforeTry == 7

\* the points of a detection pass where a call can raise: none, cv.imread, one
\* of the constructors before the try block, a call inside the try block
RaisePoints == {"none", "imread", "Mat", "try"}

\* opencv.js finishes loading
OpenCvLoads ==
    /\ ~cvLoaded
    /\ cvLoaded' = TRUE
    /\ UNCHANGED <<measureVars, classifyVars, legacyVars, cameraVars, processingCard,
                   videoReady, cardTicks, cardRuns, cardConsole, liveMats, overlayShown>>

\* the video element gets its first frame
VideoLoads ==
    /\ ~videoReady
    /\ videoReady' = TRUE
    /\ UNCHANGED <<measureVars, classifyVars, legacyVars, cameraVars, processingCard,
                   cvLoaded, cardTicks, cardRuns, cardConsole, liveMats, overlayShown>>

\* one tick of the timer: detectCard from its first line to its return or to
\* the exception that leaves it.  raise is the point where a call raises,
\* created the number of objects a failing constructor run had created,
\* contours the contours handled in the try block (each leaves its cnt and its
\* approx undeleted), found whether one of them has four corners
DetectCard(raise, created, contours, found) ==
    /\ cardTicks < MaxTicks
    /\ cardTicks' = cardTicks + 1
    /\ IF ~cvLoaded
       THEN /\ cardConsole' = "OpenCV.js not loaded yet!"
            /\ UNCHANGED <<processingCard, cardRuns, liveMats, overlayShown>>
       ELSE IF ~videoReady
       THEN /\ cardConsole' = "Video not ready yet..."
            /\ UNCHANGED <<processingCard, cardRuns, liveMats, overlayShown>>
       ELSE IF processingCard
       THEN UNCHANGED <<processingCard, cardRuns, cardConsole, liveMats, overlayShown>>
       ELSE /\ cardRuns' = cardRuns + 1
            /\ CASE raise = "imread" ->
                       /\ processingCard' = TRUE
                       /\ UNCHANGED <<cardConsole, liveMats, overlayShown>>
                 [] raise = "Mat" ->
                       /\ processingCard' = TRUE
                       /\ liveMats' = liveMats + created
                       /\ UNCHANGED <<cardConsole, overlayShown>>
                 [] raise = "try" ->
                       /\ processingCard' = FALSE
                       /\ liveMats' = liveMats + 2 * contours
                       /\ cardConsole' = "OpenCV Error"
                       /\ UNCHANGED overlayShown
                 [] OTHER ->
                       /\ processingCard' = FALSE
                       /\ liveMats' = liveMats + 2 * contours
                       /\ cardConsole' = IF found /\ contours > 0 THEN "Card detected!"
                                                                  ELSE "No card found."
                       /\ overlayShown' = (overlayShown \/ (found /\ contours > 0))
    /\ UNCHANGED <<measureVars, classifyVars, legacyVars, cameraVars, cvLoaded, videoReady>>

NextCard ==
    \/ OpenCvLoads
    \/ VideoLoads
    \/ \E raise \in RaisePoints, created \in 1..(MatsBeforeTry - 1),
          contours \in 0..MaxContours, found \in BOOLEAN :
           DetectCard(raise, created, contours, found)

SpecCard == Init /\ [][NextCard]_vars

-----------------------------------------------------------------------------
(* Properties.                                                              *)

IsPrefix(s, t) == Len(s) <= Len(t) /\ SubSeq(t, 1, Len(s)) = s

\* C1: a call appends a record to measurementHistory only if that same call's
\* frame holds both a first hand with at least 18 landmarks and a detection; a
\* call missing either leaves the history as it was, whatever earlier calls held.
C1_AppendOnlyWithBoth ==
    [][ /\ (measurementHistory' # measurementHistory =>
              \E frame \in Frames : HasBoth(frame) /\ bothLog' = Append(bothLog, frame))
        /\ (calls' # calls /\ bothLog' = bothLog => measurementHistory' = measurementHistory)
      ]_vars

\* a call with a usable hand and no detection went by without appending, in a
\* session where a detection was seen and a record taken
C1_Witness ==
    /\ handOnlyCalls >= 1
    /\ Len(measurementHistory) = 1
    /\ calls = 2

\* C2: the length of measurementHistory equals the number of frames so far that
\* had both a usable hand and a detection, however the other frames interleave.
C2_LengthIsBothCount == Len(measurementHistory) = Len(bothLog)

\* two frames with both detections and one without have been processed
C2_Witness == calls = 3 /\ Len(bothLog) = 2 /\ Len(measurementHistory) = 2

\* C3: measurementHistory is append-only: in every step the old log is a prefix
\* of the new one, so no record is removed, reordered or changed in any field.
C3_AppendOnly == [][IsPrefix(measurementHistory, measurementHistory')]_vars

\* a log of two records taken at different times, rendered since
C3_Witness ==
    /\ Len(measurementHistory) = 2
    /\ measurementHistory[1].timestamp # measurementHistory[2].timestamp
    /\ Len(measurementHistoryContainer.rows) = 2

-----------------------------------------------------------------------------
(* The averages, stated over the records of the log.                        *)

SizeClasses == {"Small", "Medium", "Large"}

IsEstimate(display) == "mm" \in DOMAIN display

\* the records of the log whose millimeter field is not null
NonNull(field) == { i \in 1..Len(measurementHistory) : measurementHistory[i][field] # Null }

RECURSIVE TotalMm(_, _)
TotalMm(I, field) ==
    IF I = {} THEN Zero
    ELSE LET i == CHOOSE j \in I : TRUE
         IN  RAdd(measurementHistory[i][field], TotalMm(I \ {i}, field))

\* the display shows, to two decimals, total / count over the non-null records,
\* and no number when there is none
ShowsMeanOf(display, field) ==
    LET I == NonNull(field)
        n == Cardinality(I)
    IN  IF n = 0 THEN ~IsEstimate(display)
        ELSE /\ IsEstimate(display)
             /\ LET shown == Rat(100 * display.mm[1] + display.mm[2], 100)
                    off   == RSub(RMul(shown, RInt(n)), TotalMm(I, field))
                    dist  == IF RLt(off, Zero) THEN RNeg(off) ELSE off
                IN  ~RGt(RMul(RInt(200), dist), RInt(n))

\* C4: after every call each published average is the arithmetic mean of exactly
\* the non-null millimeter values of the log (shown to two decimals): a record
\* with null fields adds nothing to the sum and nothing to the count.
C4_MeanOfNonNull ==
    /\ ShowsMeanOf(currentPalmWidthDisplay, "dist5to17_mm")
    /\ ShowsMeanOf(currentPalmLengthDisplay, "dist0to9_mm")

\* a log [value, null, other value] with both averages published
C4_Witness ==
    /\ Len(measurementHistory) = 3
    /\ measurementHistory[1].dist5to17_mm # Null
    /\ measurementHistory[2].dist5to17_mm = Null
    /\ measurementHistory[3].dist5to17_mm # Null
    /\ measurementHistory[3].dist5to17_mm # measurementHistory[1].dist5to17_mm
    /\ IsEstimate(currentPalmWidthDisplay)
    /\ IsEstimate(currentPalmLengthDisplay)

\* v < k for a millimeter value v = <<n, d>>
Below(v, k) == v[1] < k * v[2]

\* C5: the classification is total with fixed thresholds: palm width is Small
\* below 80, Medium from 80 up to (not including) 90, Large from 90; palm length
\* is Small below 80, Medium from 80 up to (not including) 100, Large from 100.
C5_Thresholds ==
    classifyOut # Null =>
        LET record == classifyOut.record
        IN  /\ record.dist5to17_mm = classifyIn
            /\ record.dist0to9_mm = classifyIn
            /\ record.estimatedPalmWidth \in SizeClasses
            /\ record.estimatedPalmLength \in SizeClasses
            /\ (record.estimatedPalmWidth = "Small" <=> Below(classifyIn, 80))
            /\ (record.estimatedPalmWidth = "Medium" <=>
                    ~Below(classifyIn, 80) /\ Below(classifyIn, 90))
            /\ (record.estimatedPalmWidth = "Large" <=> ~Below(classifyIn, 90))
            /\ (record.estimatedPalmLength = "Small" <=> Below(classifyIn, 80))
            /\ (record.estimatedPalmLength = "Medium" <=>
                    ~Below(classifyIn, 80) /\ Below(classifyIn, 100))
            /\ (record.estimatedPalmLength = "Large" <=> ~Below(classifyIn, 100))

\* the boundary value 90 classified: Large as a width, Medium as a length
C5_Witness ==
    /\ classifyIn = RInt(90)
    /\ classifyOut # Null
    /\ classifyOut.record.estimatedPalmWidth = "Large"
    /\ classifyOut.record.estimatedPalmLength = "Medium"

\* C6: the class stored in a record with millimeter value v is the class
\* published for an average equal to v, for both distances.
C6_SameClassBothSites ==
    classifyOut # Null =>
        /\ IsEstimate(classifyOut.width)
        /\ IsEstimate(classifyOut.length)
        /\ classifyOut.width.mm = ToFixed2(classifyIn)
        /\ classifyOut.length.mm = ToFixed2(classifyIn)
        /\ classifyOut.width.class = classifyOut.record.estimatedPalmWidth
        /\ classifyOut.length.class = classifyOut.record.estimatedPalmLength

\* a one-record history of 95 mm: Large as a width and Medium as a length, in the
\* record and in the summary
C6_Witness ==
    /\ classifyIn = RInt(95)
    /\ classifyOut # Null
    /\ classifyOut.record.estimatedPalmWidth = "Large"
    /\ classifyOut.width.class = "Large"
    /\ classifyOut.record.estimatedPalmLength = "Medium"
    /\ classifyOut.length.class = "Medium"

\* the frame's first bounding box has width 0 and height 0
HasZeroBox(frame) ==
    /\ HasDetection(frame)
    /\ frame.objectResults.detections[1].boundingBox.width = Zero
    /\ frame.objectResults.detections[1].boundingBox.height = Zero

\* C7: a frame with a usable hand and a 0 x 0 reference box still appends a
\* record: the pixel fields are populated, both millimeter fields are null and
\* both classes are "N/A".
C7_ZeroBoxStillRecorded ==
    \A i \in 1..Len(bothLog) :
        HasZeroBox(bothLog[i]) =>
            /\ i <= Len(measurementHistory)
            /\ LET record == measurementHistory[i]
               IN  /\ record.dist5to17 # Null /\ RGt(record.dist5to17, Zero)
                   /\ record.dist0to9 # Null /\ RGt(record.dist0to9, Zero)
                   /\ record.cardLongSide = Zero
                   /\ record.cardShortSide = Zero
                   /\ record.dist5to17_mm = Null
                   /\ record.dist0to9_mm = Null
                   /\ record.estimatedPalmWidth = "N/A"
                   /\ record.estimatedPalmLength = "N/A"

\* the latest frame had a usable hand and a 0 x 0 box, and its record is in the log
C7_Witness ==
    /\ Len(bothLog) = 2
    /\ HasZeroBox(bothLog[2])
    /\ Len(measurementHistory) = 2
    /\ measurementHistory[2].dist5to17_mm = Null
    /\ measurementHistory[1].dist5to17_mm # Null

\* two records agree in every field but the timestamp
SameMeasurement(r1, r2) ==
    /\ r1.dist5to17 = r2.dist5to17
    /\ r1.dist0to9 = r2.dist0to9
    /\ r1.dist5to17_mm = r2.dist5to17_mm
    /\ r1.dist0to9_mm = r2.dist0to9_mm
    /\ r1.estimatedPalmWidth = r2.estimatedPalmWidth
    /\ r1.estimatedPalmLength = r2.estimatedPalmLength
    /\ r1.cardLongSide = r2.cardLongSide
    /\ r1.cardShortSide = r2.cardShortSide

\* C8: the record a call appends depends on that call's frame only: whenever
\* the same frame is processed after different earlier frames, the two records
\* agree in their pixel, millimeter, class and card-side fields.
C8_RecordOfFrameOnly ==
    \A i, j \in 1..Len(bothLog) :
        bothLog[i] = bothLog[j] =>
            /\ i <= Len(measurementHistory)
            /\ j <= Len(measurementHistory)
            /\ SameMeasurement(measurementHistory[i], measurementHistory[j])

\* the same 0 x 0 frame processed first and again after a calibrated frame
C8_Witness ==
    /\ Len(bothLog) = 3
    /\ bothLog[1] = bothLog[3]
    /\ HasZeroBox(bothLog[1])
    /\ Len(measurementHistory) = 3
    /\ measurementHistory[2].dist5to17_mm # Null
    /\ measurementHistory[3].dist5to17_mm = Null

\* the summary of one distance kind never leaves the estimate state, and is an
\* estimate with a size class whenever the log holds a valid record of the kind
StaysEstimate(display, field) ==
    /\ (NonNull(field) # {} =>
            /\ IsEstimate(display)
            /\ display.class \in SizeClasses
            /\ ShowsMeanOf(display, field))
    /\ (IsEstimate(display) => NonNull(field) # {})

\* C9: once a record with a non-null millimeter value exists, the summary of
\* that kind is, after every later call, the mean over all valid records with a
\* Small/Medium/Large class; it never returns to "Not detected" or "N/A".
C9_EstimateNeverDowngraded ==
    /\ [](StaysEstimate(currentPalmWidthDisplay, "dist5to17_mm"))
    /\ [](StaysEstimate(currentPalmLengthDisplay, "dist0to9_mm"))
    /\ [][IsEstimate(currentPalmWidthDisplay) => IsEstimate(currentPalmWidthDisplay')]_vars
    /\ [][IsEstimate(currentPalmLengthDisplay) => IsEstimate(currentPalmLengthDisplay')]_vars

\* after a valid record: a frame with a 0 x 0 box and a frame without a
\* detection, and both estimates still stand
C9_Witness ==
    /\ Len(measurementHistory) = 2
    /\ measurementHistory[1].dist0to9_mm # Null
    /\ measurementHistory[2].dist0to9_mm = Null
    /\ calls = 3
    /\ handOnlyCalls = 1
    /\ IsEstimate(currentPalmWidthDisplay)
    /\ IsEstimate(currentPalmLengthDisplay)

\* C10: while no frame has held a reference box, the log stays empty and neither
\* summary publishes a number: both keep their "Not detected" text.
C10_NoBoxNoEstimate ==
    ~boxSeen =>
        /\ measurementHistory = <<>>
        /\ ~IsEstimate(currentPalmWidthDisplay)
        /\ ~IsEstimate(currentPalmLengthDisplay)
        /\ currentPalmWidthDisplay = NotDetected("Palm Width")
        /\ currentPalmLengthDisplay = NotDetected("Palm Length")
        /\ measurementHistoryContainer.noData

\* three frames with a usable hand and no reference box have been processed
C10_Witness ==
    /\ ~boxSeen
    /\ handOnlyCalls = 3
    /\ measurementHistory = <<>>

\* C11: in every version of updateMeasurementDisplays the shown pixel distance
\* of both landmark pairs is the root of ((x2-x1)*W)^2 + ((y2-y1)*H)^2, every x
\* scaled by the frame width and every y by the frame height
PerAxisSquare(a, b, canvasWidth, canvasHeight) ==
    RAdd(RSquare(RMul(RSub(b.x, a.x), RInt(canvasWidth))),
         RSquare(RMul(RSub(b.y, a.y), RInt(canvasHeight))))

\* shown is the hundredth nearest to the root of q
IsRootToFixed2(shown, q) ==
    LET h == shown[1] * 100 + shown[2]
    IN  /\ h = 0 \/ (2 * h - 1) * (2 * h - 1) * q[2] <= 40000 * q[1]
        /\ 40000 * q[1] < (2 * h + 1) * (2 * h + 1) * q[2]

C11_PerAxisEveryVersion ==
    /\ \A i \in 1..Len(measurementHistory) :
           LET landmarks == bothLog[i].handResults.landmarks[1]
               w == bothLog[i].canvasWidth
               h == bothLog[i].canvasHeight
           IN  /\ RSquare(measurementHistory[i].dist5to17) =
                      PerAxisSquare(Landmark(landmarks, 5), Landmark(landmarks, 17), w, h)
               /\ RSquare(measurementHistory[i].dist0to9) =
                      PerAxisSquare(Landmark(landmarks, 0), Landmark(landmarks, 9), w, h)
    /\ (legacyFrame # Null /\ HasUsableHand(legacyFrame)) =>
           LET landmarks == legacyFrame.handResults.landmarks[1]
               w == legacyFrame.canvasWidth
               h == legacyFrame.canvasHeight
           IN  /\ IsRootToFixed2(dist5to17Display.px,
                      PerAxisSquare(Landmark(landmarks, 5), Landmark(landmarks, 17), w, h))
               /\ IsRootToFixed2(dist0to9Display.px,
                      PerAxisSquare(Landmark(landmarks, 0), Landmark(landmarks, 9), w, h))

\* C12: for every frame with a usable hand and a box whose compensated long side L
\* is > 0, the record holds dist5to17_mm * L = dist5to17 * 85.60 * 1.30 and
\* dist0to9_mm * L = dist0to9 * 85.60 * 1.00, L being the record's cardLongSide
C12_MmTimesLongSide ==
    \A i \in 1..Len(measurementHistory) :
        LET r == measurementHistory[i]
        IN  RGt(r.cardLongSide, Zero) =>
                /\ r.dist5to17_mm # Null
                /\ r.dist0to9_mm # Null
                /\ RMul(r.dist5to17_mm, r.cardLongSide) =
                       RMul(RMul(r.dist5to17, Rat(8560, 100)), Rat(130, 100))
                /\ RMul(r.dist0to9_mm, r.cardLongSide) =
                       RMul(RMul(r.dist0to9, Rat(8560, 100)), Rat(100, 100))

\* a record converted at a ratio other than 1 px/mm
C12_Witness ==
    \E i \in 1..Len(measurementHistory) :
        /\ RGt(measurementHistory[i].cardLongSide, Zero)
        /\ measurementHistory[i].dist5to17_mm # Null
        /\ measurementHistory[i].dist0to9_mm # measurementHistory[i].dist0to9

\* the compensated long side of the frame's first bounding box
CompensatedLongSide(frame) ==
    LET bbox == frame.objectResults.detections[1].boundingBox
    IN  RMax(RMul(bbox.width, Rat(90, 100)), RMul(bbox.height, Rat(90, 100)))

\* C13: a record's millimeter fields are non-null if and only if the compensated
\* long side of its frame's reference box is > 0; when it is <= 0 (a zero or a
\* negative box) the record carries null mm fields and "N/A" classes
C13_MmIffPositiveLongSide ==
    /\ Len(measurementHistory) = Len(bothLog)
    /\ \A i \in 1..Len(measurementHistory) :
           LET r == measurementHistory[i]
           IN  IF RGt(CompensatedLongSide(bothLog[i]), Zero)
               THEN /\ r.dist5to17_mm # Null
                    /\ r.dist0to9_mm # Null
                    /\ r.estimatedPalmWidth \in SizeClasses
                    /\ r.estimatedPalmLength \in SizeClasses
               ELSE /\ r.dist5to17_mm = Null
                    /\ r.dist0to9_mm = Null
                    /\ r.estimatedPalmWidth = "N/A"
                    /\ r.estimatedPalmLength = "N/A"

\* the log holds a record of a negative box, one of a zero box and a converted one
C13_Witness ==
    /\ \E i \in 1..Len(measurementHistory) :
           /\ RLt(measurementHistory[i].cardLongSide, Zero)
           /\ measurementHistory[i].dist5to17_mm = Null
    /\ \E i \in 1..Len(measurementHistory) :
           /\ RGt(measurementHistory[i].cardLongSide, Zero)
           /\ measurementHistory[i].dist5to17_mm # Null

\* the golden frame: landmarks 0, 5, 9, 17 at (0.5,0.5), (0.4,0.4), (0.5,0.3),
\* (0.6,0.4), a 640x480 canvas and a first box of width 300 and height 189
IsGoldenFrame(frame) ==
    /\ HasBoth(frame)
    /\ LET landmarks == frame.handResults.landmarks[1]
           bbox      == frame.objectResults.detections[1].boundingBox
       IN  /\ Landmark(landmarks, 0) = [x |-> Rat(50, 100), y |-> Rat(50, 100)]
           /\ Landmark(landmarks, 5) = [x |-> Rat(40, 100), y |-> Rat(40, 100)]
           /\ Landmark(landmarks, 9) = [x |-> Rat(50, 100), y |-> Rat(30, 100)]
           /\ Landmark(landmarks, 17) = [x |-> Rat(60, 100), y |-> Rat(40, 100)]
           /\ bbox.width = RInt(300)
           /\ bbox.height = RInt(189)
    /\ frame.canvasWidth = 640
    /\ frame.canvasHeight = 480

\* the record the version with the history appends for the golden frame
GoldenRecordAppended ==
    /\ Len(measurementHistory) = Len(bothLog)
    /\ \A i \in 1..Len(measurementHistory) :
           IsGoldenFrame(bothLog[i]) =>
               LET r == measurementHistory[i]
               IN  /\ r.cardLongSide = RInt(270)
                   /\ r.cardShortSide = Rat(189 * 9, 10)
                   /\ r.dist5to17 = RInt(128)
                   /\ r.dist0to9 = RInt(96)
                   /\ r.dist5to17_mm = Rat(128 * 856 * 13, 270 * 100)
                   /\ r.dist0to9_mm = Rat(96 * 856, 270 * 10)
                   /\ r.estimatedPalmWidth = "Small"
                   /\ r.estimatedPalmLength = "Small"
                   /\ HistoryRow(r).dist5to17_mm = <<52, 75>>
                   /\ HistoryRow(r).dist0to9_mm = <<30, 44>>

\* what the legacy version shows for the golden frame
GoldenPixelsShown ==
    (legacyFrame # Null /\ IsGoldenFrame(legacyFrame)) =>
        /\ dist5to17Display.px = <<128, 0>>
        /\ dist0to9Display.px = <<96, 0>>

\* C14: the golden scenario (landmarks 0,5,9,17 = (0.50,0.50), (0.40,0.40),
\* (0.50,0.30), (0.60,0.40), frame 640x480, box 300x189) gives cardLongSide 270,
\* cardShortSide 189*0.9, dist5to17 = 128 px, dist0to9 = 96 px,
\* dist5to17_mm = 128*85.60*1.30/270 and dist0to9_mm = 96*85.60/270, both Small
C14_GoldenScenario == GoldenRecordAppended /\ GoldenPixelsShown

\* the summary display is the text its log calls for: "Not detected" for an empty
\* log, "N/A (No valid measurements)" for a log without a value, else an estimate
PublishedFor(display, label, field) ==
    IF measurementHistory = <<>> THEN display = [text |-> label \o ": Not detected"]
    ELSE IF NonNull(field) = {}
         THEN display = [text |-> label \o ": N/A (No valid measurements)"]
         ELSE IsEstimate(display) /\ display.class \in SizeClasses

\* C15: on every frame in a recoverable condition (hand with fewer than 18
\* landmarks, no hand, no box, box with compensated long side <= 0, empty history,
\* history without a non-null value) updateMeasurementDisplays raises no error
\* and publishes: both summary displays and the rendered history are those of
\* the log, the condition showing only as a missing or "N/A" value
C15_RecoverableNoError ==
    /\ ~threw
    /\ calls > 0 =>
           /\ PublishedFor(currentPalmWidthDisplay, "Palm Width", "dist5to17_mm")
           /\ PublishedFor(currentPalmLengthDisplay, "Palm Length", "dist0to9_mm")
           /\ measurementHistoryContainer.noData = (measurementHistory = <<>>)
           /\ Len(measurementHistoryContainer.rows) = Len(measurementHistory)
           /\ \A i \in 1..Len(measurementHistory) :
                  measurementHistory[i].dist5to17_mm = Null =>
                      \E k \in 1..Len(measurementHistoryContainer.rows) :
                          /\ measurementHistoryContainer.rows[k].dist5to17_mm = "N/A"
                          /\ measurementHistoryContainer.rows[k].estimatedPalmWidth = "N/A"

\* a call without a usable hand and a detection, made on a log whose only record
\* is that of a box with a long side <= 0
C15_Witness ==
    /\ calls > Len(bothLog) + handOnlyCalls
    /\ Len(measurementHistory) = 1
    /\ ~RGt(measurementHistory[1].cardLongSide, Zero)
    /\ currentPalmWidthDisplay = [text |-> "Palm Width: N/A (No valid measurements)"]
    /\ ~threw

\* C16: a call that appends no record (hand or detection missing) leaves
\* measurementHistory unchanged and publishes the same summary (same means, same
\* classes) as the call before it
C16_MissRepublishesSummary ==
    [][ (calls' # calls /\ bothLog' = bothLog) =>
            /\ measurementHistory' = measurementHistory
            /\ currentPalmWidthDisplay' = currentPalmWidthDisplay
            /\ currentPalmLengthDisplay' = currentPalmLengthDisplay
            /\ (calls > 0 => measurementHistoryContainer' = measurementHistoryContainer) ]_vars

\* calls with and without a capture have been made and an estimate is on display
C16_Witness ==
    /\ calls > Len(bothLog)
    /\ Len(bothLog) > 0
    /\ IsEstimate(currentPalmWidthDisplay)
    /\ IsEstimate(currentPalmLengthDisplay)

\* C17: the table is newest-first while the log is stored in insertion order:
\* after every call row k (counted from 0) shows record length-1-k, and the
\* stored records are still those of the capturing frames in the order captured
C17_NewestFirstStoredInOrder ==
    LET n == Len(measurementHistory)
    IN  /\ Len(measurementHistoryContainer.rows) = n
        /\ \A k \in 0..(n - 1) :
               measurementHistoryContainer.rows[k + 1] = HistoryRow(measurementHistory[n - k])
        /\ n = Len(bothLog)
        /\ \A i \in 1..n :
               LET frame == bothLog[i]
               IN  /\ measurementHistory[i].dist5to17 =
                          HandMeasurements(frame.handResults, frame.canvasWidth,
                                           frame.canvasHeight).dist5to17
                   /\ measurementHistory[i].cardLongSide =
                          CardMeasurements(frame.objectResults).cardLongSide
        /\ \A i \in 1..(n - 1) :
               measurementHistory[i].timestamp[3] <= measurementHistory[i + 1].timestamp[3]

\* two different records are in the log and the later one is the first row
C17_Witness ==
    /\ Len(measurementHistory) >= 2
    /\ measurementHistory[1] # measurementHistory[Len(measurementHistory)]
    /\ measurementHistoryContainer.rows[1] =
           HistoryRow(measurementHistory[Len(measurementHistory)])
    /\ measurementHistoryContainer.rows[1] # HistoryRow(measurementHistory[1])

\* the activation is inside updateMeasurementDisplays: the capture block has run,
\* the aggregation and the publishing have not
InsideUpdate(activation) ==
    /\ activation # Null
    /\ activation.fn = "predictWebcam"
    /\ activation.pc = "aggregate"

\* C18: a frame's processing runs to completion: in every interleaving of
\* animation-frame callbacks and UI events, between the start and the end of one
\* invocation of updateMeasurementDisplays no second invocation begins and no
\* other code touches measurementHistory; the invocation is never left waiting
C18_RunToCompletion ==
    [][ /\ \A i \in 1..Len(suspended) : ~InsideUpdate(suspended[i])
        /\ \A i \in 1..Len(suspended') : ~InsideUpdate(suspended'[i])
        /\ InsideUpdate(stack) =>
               /\ stack' = PredictWebcamAt("draw")
               /\ calls' = calls
               /\ measurementHistory' = measurementHistory
               /\ latestHandResults' = latestHandResults
               /\ latestObjectResults' = latestObjectResults
               /\ webcamRunning' = webcamRunning
               /\ suspended' = suspended
               /\ rafPending' = rafPending
        /\ (measurementHistory' # measurementHistory \/ calls' # calls) =>
               /\ stack = PredictWebcamAt("update")
               /\ InsideUpdate(stack')
               /\ calls' = calls + 1 ]_vars

\* an invocation is in progress while another animation-frame callback is pending
\* and the click listener is registered
C18_Witness ==
    /\ InsideUpdate(stack)
    /\ rafPending > 0
    /\ clickListener
    /\ Len(measurementHistory) > 0

\* the step is the work of a camera control: an Enable or Disable click, a camera
\* selection change, a camera switch, or getUserMedia settling either way
CameraControlStep ==
    \/ webcamRunning' # webcamRunning
    \/ currentStream' # currentStream
    \/ liveStreams' # liveStreams
    \/ selectedDeviceId' # selectedDeviceId
    \/ currentCameraIndex' # currentCameraIndex
    \/ streamsRequested' # streamsRequested
    \/ Len(suspended') # Len(suspended)
    \/ enableCamButtonText' # enableCamButtonText
    \/ displayShown' # displayShown
    \/ clickListener' # clickListener

\* between frames, the summaries shown are the means over the whole log
AveragesCountWholeLog ==
    (stack = Null /\ calls > 0) =>
        /\ ShowsMeanOf(currentPalmWidthDisplay, "dist5to17_mm")
        /\ ShowsMeanOf(currentPalmLengthDisplay, "dist0to9_mm")
        /\ Len(measurementHistoryContainer.rows) = Len(measurementHistory)

\* C19: no camera-control event (Enable or Disable click, camera selection
\* change, camera switch, camera access failure) changes measurementHistory: the
\* log only grows, on the frame-processing path, and the records captured before
\* the camera was disabled are still counted in the averages after it is re-enabled
C19_CameraControlsKeepHistory ==
    [][ /\ CameraControlStep =>
               /\ measurementHistory' = measurementHistory
               /\ currentPalmWidthDisplay' = currentPalmWidthDisplay
               /\ currentPalmLengthDisplay' = currentPalmLengthDisplay
        /\ IsPrefix(measurementHistory, measurementHistory')
        /\ measurementHistory' # measurementHistory => stack = PredictWebcamAt("update")
        /\ AveragesCountWholeLog
        /\ (stack' = Null /\ calls' > 0) =>
               /\ Len(measurementHistoryContainer'.rows) = Len(measurementHistory')
               /\ IsEstimate(currentPalmWidthDisplay') = (measurementHistory' # <<>>) ]_vars

\* the camera was disabled with records in the log and re-enabled, and the log
\* has grown since: the table and the averages cover both periods
C19_Witness ==
    /\ capturedBeforeDisable > 0
    /\ webcamRunning
    /\ Len(measurementHistory) > capturedBeforeDisable
    /\ stack = Null
    /\ IsEstimate(currentPalmWidthDisplay)
    /\ Len(measurementHistoryContainer.rows) = Len(measurementHistory)

\* the values of a capturing frame that the claim names as consumed: landmarks
\* 0, 5, 9, 17 of the first hand, width and height of the first detection, and
\* the frame size
Consumed(frame) ==
    LET landmarks == frame.handResults.landmarks[1]
        bbox      == frame.objectResults.detections[1].boundingBox
    IN  <<Landmark(landmarks, 0), Landmark(landmarks, 5), Landmark(landmarks, 9),
          Landmark(landmarks, 17), bbox.width, bbox.height,
          frame.canvasWidth, frame.canvasHeight>>

\* C20: only landmarks 0, 5, 9, 17 of the first hand and the width and height
\* of the first detection are consumed: two frames that agree on those and on
\* the frame size, whatever their other landmarks, further hands, further
\* detections or box origin, give records with the same pixel, mm, class and
\* card-side fields
C20_OnlyConsumedValuesMatter ==
    /\ Len(measurementHistory) = Len(bothLog)
    /\ \A i, j \in 1..Len(measurementHistory) :
           Consumed(bothLog[i]) = Consumed(bothLog[j]) =>
               SameMeasurement(measurementHistory[i], measurementHistory[j])

\* the log holds the records of two frames that agree on the consumed values and
\* differ both in the hands and in the detections delivered
C20_Witness ==
    \E i, j \in 1..Len(measurementHistory) :
        /\ Consumed(bothLog[i]) = Consumed(bothLog[j])
        /\ bothLog[i].handResults # bothLog[j].handResults
        /\ bothLog[i].objectResults # bothLog[j].objectResults
        /\ Len(bothLog[i].handResults.landmarks) # Len(bothLog[j].handResults.landmarks)
        /\ SameMeasurement(measurementHistory[i], measurementHistory[j])

\* C21: the sides stored in a record are the compensated sides of the frame's
\* first bounding box, cardLongSide = max(0.90 * width, 0.90 * height) and
\* cardShortSide = min(0.90 * width, 0.90 * height), so that
\* cardLongSide >= cardShortSide in every record of the log
C21_CompensatedSides ==
    /\ Len(measurementHistory) = Len(bothLog)
    /\ \A i \in 1..Len(measurementHistory) :
           LET r         == measurementHistory[i]
               bbox      == bothLog[i].objectResults.detections[1].boundingBox
               width_px  == RMul(Rat(90, 100), bbox.width)
               height_px == RMul(Rat(90, 100), bbox.height)
           IN  /\ r.cardLongSide = RMax(width_px, height_px)
               /\ r.cardShortSide = RMin(width_px, height_px)
               /\ RGe(r.cardLongSide, r.cardShortSide)

\* the log holds the record of a 300 x 189 box, stored as 270 x 170.1, and the
\* record of a box of negative extent, whose sides are ordered all the same
C21_Witness ==
    /\ \E i \in 1..Len(measurementHistory) :
           /\ bothLog[i].objectResults.detections[1].boundingBox.width = RInt(300)
           /\ measurementHistory[i].cardLongSide = RInt(270)
           /\ measurementHistory[i].cardShortSide = Rat(1701, 10)
    /\ \E i \in 1..Len(measurementHistory) :
           /\ RLt(measurementHistory[i].cardLongSide, Zero)
           /\ RLt(measurementHistory[i].cardShortSide, measurementHistory[i].cardLongSide)

\* the landmarks a measurement reads and the frame size
ConsumedHand(frame) ==
    LET landmarks == frame.handResults.landmarks[1]
    IN  <<Landmark(landmarks, 0), Landmark(landmarks, 5), Landmark(landmarks, 9),
          Landmark(landmarks, 17), frame.canvasWidth, frame.canvasHeight>>

\* frame g shows the hand of frame f with a box whose long side is twice as long
DoubledBox(f, g) ==
    /\ ConsumedHand(f) = ConsumedHand(g)
    /\ RGt(CompensatedLongSide(f), Zero)
    /\ CompensatedLongSide(g) = RMul(RInt(2), CompensatedLongSide(f))

\* C22: for two frames with the same hand landmarks and frame size whose boxes
\* have long sides L and 2L (L > 0), both recorded millimeter values of the
\* second frame are exactly half those of the first
C22_MmHalvesWhenBoxDoubles ==
    /\ Len(measurementHistory) = Len(bothLog)
    /\ \A i, j \in 1..Len(measurementHistory) :
           DoubledBox(bothLog[i], bothLog[j]) =>
               LET r == measurementHistory[i]
                   s == measurementHistory[j]
               IN  /\ r.dist5to17_mm # Null /\ s.dist5to17_mm # Null
                   /\ r.dist0to9_mm # Null /\ s.dist0to9_mm # Null
                   /\ RMul(RInt(2), s.dist5to17_mm) = r.dist5to17_mm
                   /\ RMul(RInt(2), s.dist0to9_mm) = r.dist0to9_mm

\* the log holds the records of one hand measured against a 300 x 189 box and
\* against a 600 x 189 box, the second with the smaller millimeter values
C22_Witness ==
    \E i, j \in 1..Len(measurementHistory) :
        /\ DoubledBox(bothLog[i], bothLog[j])
        /\ measurementHistory[i].cardLongSide = RInt(270)
        /\ measurementHistory[j].cardLongSide = RInt(540)
        /\ measurementHistory[j].cardShortSide = measurementHistory[i].cardShortSide
        /\ RLt(measurementHistory[j].dist5to17_mm, measurementHistory[i].dist5to17_mm)

\* predictWebcam is at its video-time test
AtFrameTest == stack # Null /\ stack.pc = "frame"

\* C23: an invocation of predictWebcam runs detection and updateMeasurementDisplays
\* if and only if video.currentTime differs from lastVideoTime and the incremented
\* frameCount is a multiple of 2; frameCount counts the distinct-time frames since
\* its last reset, so every second one is measured, the first new frame after a
\* reset is not, and a measured video time is recorded in lastVideoTime, which
\* keeps the next invocation from measuring it again; updateMeasurementDisplays
\* is called from nowhere else
C23_EverySecondNewFrame ==
    [][/\ AtFrameTest =>
            /\ (stack' = PredictWebcamAt("update")) <=>
                   (lastVideoTime # videoTime /\ (frameCount + 1) % 2 = 0)
            /\ (stack' # PredictWebcamAt("update")) => stack' = PredictWebcamAt("draw")
            /\ frameCount' = IF lastVideoTime # videoTime THEN frameCount + 1 ELSE frameCount
            /\ frameCount = 0 => stack' # PredictWebcamAt("update")
            /\ stack' = PredictWebcamAt("update") =>
                   lastVideoTime # videoTime /\ lastVideoTime' = videoTime
       /\ calls' # calls => stack = PredictWebcamAt("update") /\ lastVideoTime = videoTime
      ]_vars

\* after a Disable click reset the counter and the camera was enabled again, the
\* first new frame was skipped and the second is being measured
C23_Witness ==
    /\ capturedBeforeDisable >= 0
    /\ webcamRunning
    /\ frameCount = 2
    /\ stack = PredictWebcamAt("update")

\* C24: at most one prediction loop is active: there is never more than one
\* pending requestAnimationFrame(predictWebcam) callback, whatever the sequence
\* of Enable and Disable clicks, camera changes and loadeddata events
C24_SinglePredictionLoop == rafPending <= 1

\* C25: at most one un-stopped camera stream exists at any time: every stream
\* obtained earlier has had its tracks stopped by the time a newer one is
\* assigned to currentStream, for every interleaving of setupCamera invocations
C25_SingleLiveStream == liveStreams \subseteq {currentStream}

\* C26: after a click on Disable Camera, webcamRunning stays false and no new
\* stream is attached until the user next clicks Enable Camera, also when a
\* setupCamera started by a camera change is still awaiting getUserMedia at
\* the moment of the click
C26_DisabledUntilEnableClick ==
    userDisabled => ~webcamRunning /\ currentStream \notin liveStreams

\* no prediction loop is active: no callback is pending and none is running
NoPredictionLoop == rafPending = 0 /\ stack = Null

\* C27: once webcamRunning is false and stays false, every prediction loop
\* terminates: while the webcam is off no further requestAnimationFrame is
\* scheduled, and in the end no callback is pending, no frame is processed and
\* updateMeasurementDisplays is no longer called
C27_LoopsTerminate ==
    /\ [][~webcamRunning /\ ~webcamRunning' => rafPending' <= rafPending]_vars
    /\ <>[](~webcamRunning) => <>[]NoPredictionLoop
    /\ <>[](~webcamRunning) => <>[][calls' = calls /\ frameCount' = frameCount]_vars

\* the camera was disabled after it had measured, and the callback that was
\* pending at the click has run once more (it counted a frame) and left no
\* successor
C27_Witness ==
    /\ userDisabled /\ ~webcamRunning
    /\ calls > 0
    /\ frameCount = 1
    /\ NoPredictionLoop

\* a step of the click handler with the camera on: the webcam goes off, or the
\* click is noted, and no awaiting activation is resumed
DisableClick ==
    /\ webcamRunning
    /\ suspended' = suspended
    /\ ~webcamRunning' \/ (~userDisabled /\ userDisabled')

\* C28: a click on the camera button while webcamRunning is true leaves the reset
\* state: webcamRunning = false, button text "Enable Camera", the tracks of
\* currentStream stopped, video and canvas hidden, lastHandDetectedState = false,
\* lastCellPhoneDetectedState = false and frameCount = 0
C28_DisableClickResets ==
    [][DisableClick =>
           /\ webcamRunning' = FALSE
           /\ enableCamButtonText' = "Enable Camera"
           /\ currentStream' = currentStream
           /\ currentStream \notin liveStreams'
           /\ displayShown' = FALSE
           /\ lastHandDetectedState' = FALSE
           /\ lastCellPhoneDetectedState' = FALSE
           /\ frameCount' = 0
      ]_vars

\* the camera was disabled by a click after it had measured a hand next to the
\* card (frameCount was at least 2 and both detection states were true)
C28_Witness ==
    /\ userDisabled /\ ~webcamRunning
    /\ capturedBeforeDisable > 0
    /\ HandCurrentlyDetected(latestHandResults)
    /\ CellPhoneCurrentlyDetected(latestObjectResults)
    /\ enableCamButtonText = "Enable Camera"
    /\ currentStream # Null /\ currentStream \notin liveStreams
    /\ ~displayShown
    /\ ~lastHandDetectedState /\ ~lastCellPhoneDetectedState
    /\ frameCount = 0

\* predictWebcam runs the two models on this invocation
DetectionPass == AtFrameTest /\ stack' = PredictWebcamAt("update")

Logged(line) == \E i \in 1..Len(consoleLog') : consoleLog'[i] = line

\* on a processed frame a line is logged exactly when the detection changes
EdgeTriggered ==
    LET hand      == HandCurrentlyDetected(latestHandResults')
        cellPhone == CellPhoneCurrentlyDetected(latestObjectResults')
    IN  /\ Logged("Hand detected") <=> (hand /\ ~lastHandDetectedState)
        /\ Logged("Hand not detected") <=> (~hand /\ lastHandDetectedState)
        /\ Logged("Cell phone detected") <=> (cellPhone /\ ~lastCellPhoneDetectedState)
        /\ Logged("Cell phone not detected") <=> (~cellPhone /\ lastCellPhoneDetectedState)
        /\ Len(consoleLog') <= 2

\* within one camera-on period the lines of each kind alternate, the first being
\* the "detected" line
Alternating ==
    /\ Logged("Hand detected") => lastHandMessage \in {"", "Hand not detected"}
    /\ Logged("Hand not detected") => lastHandMessage = "Hand detected"
    /\ Logged("Cell phone detected") =>
           lastCellPhoneMessage \in {"", "Cell phone not detected"}
    /\ Logged("Cell phone not detected") => lastCellPhoneMessage = "Cell phone detected"

\* C30: detection logging is edge-triggered: on each processed frame "Hand
\* detected" is logged iff a hand is detected and lastHandDetectedState was false,
\* "Hand not detected" iff no hand is detected and lastHandDetectedState was true,
\* nothing otherwise, and the same for the cell phone; within one camera-on
\* period the messages of each kind strictly alternate, starting with "detected"
C30_EdgeTriggeredAlternating ==
    [][DetectionPass => EdgeTriggered /\ Alternating]_vars

\* the setupCamera call of an Enable attempt (a click, or the auto-enable of page
\* load) ends with its getUserMedia rejected: the activation is gone and no
\* stream was obtained
EnableAttemptRejected ==
    /\ liveStreams' = liveStreams
    /\ \E i \in 1..Len(suspended) :
           /\ suspended[i].caller \in {"click", "DOMContentLoaded"}
           /\ suspended' = Remove(suspended, i)

\* C29: when getUserMedia rejects in setupCamera, the Enable attempt ends with
\* webcamRunning = false, button text "Enable Camera" and video and canvas
\* hidden, in every version of the click handler and setupCamera
C29_FailedAccessResets ==
    [][EnableAttemptRejected =>
           /\ webcamRunning' = FALSE
           /\ enableCamButtonText' = "Enable Camera"
           /\ displayShown' = FALSE
      ]_vars

\* C31: switchCamera leaves the index alone when the webcam is not running or at
\* most one camera is available; otherwise it sets currentCameraIndex to
\* (currentCameraIndex + 1) mod the number of cameras; after k effective switches
\* among n cameras the index is k mod n, and 0 <= currentCameraIndex < n holds in
\* every reachable state with n > 0
C31_SwitchCameraIndex ==
    /\ [][currentCameraIndex' # currentCameraIndex \/ effectiveSwitches' # effectiveSwitches =>
              /\ webcamRunning /\ Len(availableVideoDevices) > 1
              /\ currentCameraIndex' = (currentCameraIndex + 1) % Len(availableVideoDevices)
              /\ effectiveSwitches' = effectiveSwitches + 1
         ]_vars
    /\ [](Len(availableVideoDevices) > 0 =>
              /\ 0 <= currentCameraIndex /\ currentCameraIndex < Len(availableVideoDevices)
              /\ currentCameraIndex = effectiveSwitches % Len(availableVideoDevices))

\* C32: the re-entrancy guard of detectCard is always released: every detectCard
\* call that set processingCard to true leaves it false when it ends, also when
\* an OpenCV call raises, so that a later tick can run detection again
C32_GuardAlwaysReleased == [][cardRuns' # cardRuns => processingCard' = FALSE]_vars

\* Small below mediumFrom, Medium from there up to largeFrom, Large from largeFrom on
ThresholdClass(mm, mediumFrom, largeFrom) ==
    IF RLt(mm, RInt(mediumFrom)) THEN "Small"
    ELSE IF RLt(mm, RInt(largeFrom)) THEN "Medium"
    ELSE "Large"

\* the record has no millimeter value and no class
RecordWithoutMm(m) ==
    /\ m.dist5to17_mm = Null /\ m.dist0to9_mm = Null
    /\ m.estimatedPalmWidth = "N/A" /\ m.estimatedPalmLength = "N/A"

\* the record has both millimeter values, each with its threshold class
RecordWithMm(m) ==
    /\ m.dist5to17_mm # Null /\ m.dist0to9_mm # Null
    /\ m.estimatedPalmWidth = ThresholdClass(m.dist5to17_mm, 80, 90)
    /\ m.estimatedPalmLength = ThresholdClass(m.dist0to9_mm, 80, 100)

\* C33: every record of measurementHistory has dist5to17_mm and dist0to9_mm both
\* null, with both classes "N/A", or both non-null, with estimatedPalmWidth and
\* estimatedPalmLength the Small/Medium/Large threshold class of the stored
\* value; the two summaries are then available or unavailable together
C33_RecordsConsistent ==
    /\ \A i \in 1..Len(measurementHistory) :
           RecordWithoutMm(measurementHistory[i]) \/ RecordWithMm(measurementHistory[i])
    /\ (Len(ValidPalmWidths(measurementHistory)) > 0)
           <=> (Len(ValidPalmLengths(measurementHistory)) > 0)
    /\ (currentPalmWidthDisplay = NoValid("Palm Width"))
           <=> (currentPalmLengthDisplay = NoValid("Palm Length"))
    /\ (currentPalmWidthDisplay = NotDetected("Palm Width"))
           <=> (currentPalmLengthDisplay = NotDetected("Palm Length"))

\* a history holding a record without millimeters, a record of a Large palm and
\* a record of a Small palm
C33_Witness ==
    /\ \E i \in 1..Len(measurementHistory) : RecordWithoutMm(measurementHistory[i])
    /\ \E i \in 1..Len(measurementHistory) :
           /\ RecordWithMm(measurementHistory[i])
           /\ measurementHistory[i].estimatedPalmWidth = "Large"
           /\ measurementHistory[i].estimatedPalmLength = "Large"
    /\ \E i \in 1..Len(measurementHistory) :
           /\ RecordWithMm(measurementHistory[i])
           /\ measurementHistory[i].estimatedPalmWidth = "Small"
           /\ measurementHistory[i].estimatedPalmLength = "Small"

\* the rows of the history table whose cell of the column is not "N/A"
RowsWithMm(column) ==
    { i \in 1..Len(measurementHistoryContainer.rows) :
          measurementHistoryContainer.rows[i][column] # "N/A" }

\* C34: a row of the history table shows "N/A" in a millimeter column if and
\* only if the mm field of its record is null, that is if and only if the record
\* is left out of the running mean, a value of 0 mm included
C34_TableAgreesWithMean ==
    LET rows   == measurementHistoryContainer.rows
        stored == Reversed(measurementHistory)
    IN  /\ Len(rows) = Len(stored)
        /\ \A i \in 1..Len(rows) :
               /\ (rows[i].dist5to17_mm = "N/A") <=> (stored[i].dist5to17_mm = Null)
               /\ (rows[i].dist0to9_mm = "N/A") <=> (stored[i].dist0to9_mm = Null)
        /\ Cardinality(RowsWithMm("dist5to17_mm")) = Len(ValidPalmWidths(measurementHistory))
        /\ Cardinality(RowsWithMm("dist0to9_mm")) = Len(ValidPalmLengths(measurementHistory))

====
